---- MODULE Spec2Model ----
(***************************************************************************)
(* Model of the Epitech calendar sync extension: the background message    *)
(* handlers, the sync orchestrator (performSync) with its in-process guard *)
(* flag, and the per-service reconciliation passes (syncToGoogleCalendar,  *)
(* syncToOutlookCalendar) against the two remote calendars.                *)
(*                                                                         *)
(* One step of the model is the completion of one awaited call together    *)
(* with the synchronous code that runs up to the next await.  pc names the *)
(* await a handler invocation is suspended on.                             *)
(*                                                                         *)
(* Strings that the code builds by concatenation are sequences of tokens,  *)
(* so that `Event ${id}: ${msg}` is <<"Event ">> \o id \o <<": ">> \o msg. *)
(***************************************************************************)
EXTENDS Integers, Sequences, FiniteSets, TLC

\* ------------------------------------------------------------------ bounds
\* rejected calls (storage, planning request, remote request, notification)
\* in a run of the background
MaxFaults == 1
\* rejected calls in a run of reconciliation passes called on their own
MaxPassFaults == 2
\* events a remote calendar can hold; a create beyond it is refused by the service
MaxRemote == 3
\* items the remote services return per listing page (maxResults / $top, scaled)
PageSize == 2
\* calendar days the clock can advance through
MaxDay == 2

\* ------------------------------------------------------------- basic values
Null == "null"
\* a local that will hold an object and has not been assigned yet
Unassigned == [assigned |-> FALSE]
\* null in a field that holds a day or timestamp, and in one that holds a message
NullTime == 0
NullMsg == <<>>
\* the messages of a run, each handled by one invocation of the listener
Procs == {"p1", "p2"}
Services == {"google", "outlook"}
\* activity codes of the planning feed (codeacti); one event code is enough
CodeActi == {"A", "B", "C"}
CodeEvent == "1"

\* ---------------------------------------------------------------- messages
MsgInProgress == <<"Sync already in progress">>
MsgNotAuthenticated == <<"Not authenticated to Epitech intranet. Please visit intra.epitech.eu and log in.">>
MsgStorage == <<"storage error">>
MsgFetchAuth == <<"Not authenticated. Please log in to the Epitech intranet.">>
MsgFetchHttp == <<"Failed to fetch planning: ", "500">>
MsgNotification == <<"notification error">>

\* every failed response, a 401 included, reported by its status alone
ApiError_Generic(svc, outcome) ==
    IF svc = "google"
    THEN <<"Google API error: ", outcome>>
    ELSE <<"Graph API error: ", outcome>>

\* googleApiRequest / graphApiRequest: the error thrown for a failed response
ApiError(svc, outcome) ==
    IF outcome = "401"
    THEN IF svc = "google"
         THEN <<"Authentication expired. Please reconnect Google Calendar.">>
         ELSE <<"Authentication expired. Please reconnect Outlook Calendar.">>
    ELSE IF svc = "google"
         THEN <<"Google API error: ", "500">>
         ELSE <<"Graph API error: ", "500">>

\* ------------------------------------------------------- canonical events
\* transformEvent: id = `epitech-${raw.codeacti}-${raw.codeevent}`
EventId(codeacti, codeevent) == <<"epitech-", codeacti, "-", codeevent>>


\* the canonical event transformEvent builds for activity a held in room loc
\* ("" when the record has neither room nor instance_location)
CanonicalEvent(a, loc) ==
    [id |-> EventId(a, CodeEvent),
     title |-> <<"EPITECH - ", a>>,
     description |-> <<"Module: ", a>>,
     location |-> loc,
     startDate |-> 9,
     endDate |-> 10]

Rooms == {"", "KB2 Pasteur"}

\* the lists getEventsForSync can return: the feed's natural key is unique,
\* so a list holds at most one event per id; listed in feed order A, B, C
RECURSIVE ListsOver(_, _)
ListsOver(order, rooms) ==
    IF order = <<>> THEN {<<>>}
    ELSE LET rest == ListsOver(Tail(order), rooms)
         IN rest \cup {<<CanonicalEvent(Head(order), r)>> \o l : r \in rooms[Head(order)], l \in rest}

\* feed of the orchestrator specification: one activity, room fixed
FeedSmall == ListsOver(<<"A">>, [a \in CodeActi |-> {"KB2 Pasteur"}])
\* feed of the reconciliation specification: three activities, A's room varies
FeedRich == ListsOver(<<"A", "B", "C">>,
                      [a \in CodeActi |-> IF a = "A" THEN Rooms ELSE {"KB2 Pasteur"}])

EventIds(events) == {events[i].id : i \in DOMAIN events}

\* ------------------------------------------------------ remote calendars
\* A remote event holds the mirrored fields under common names: title is
\* Google's summary / Outlook's subject, description is description /
\* body.content, location is location / location.displayName, tag is the
\* private extended property epitechId / the EpitechId extended property.
\* "" is an absent field.

\* the fields both adapters always transmit
MirroredFields == {"title", "description", "start", "end", "tag"}

\* toGoogleEvent, as JSON.stringify transmits it: location is
\* `event.location || undefined`, and a key whose value is undefined is
\* not part of the body
toGoogleEvent(event) ==
    [k \in MirroredFields \cup (IF event.location = "" THEN {} ELSE {"location"}) |->
        CASE k = "title" -> event.title
          [] k = "description" -> event.description
          [] k = "location" -> event.location
          [] k = "start" -> [dateTime |-> event.startDate, utc |-> TRUE]
          [] k = "end" -> [dateTime |-> event.endDate, utc |-> TRUE]
          [] k = "tag" -> event.id]

\* toOutlookEvent, as transmitted: location is
\* `event.location ? {displayName} : undefined`, dateTime is toISOString()
\* with the 'Z' removed
toOutlookEvent(event) ==
    [k \in MirroredFields \cup (IF event.location = "" THEN {} ELSE {"location"}) |->
        CASE k = "title" -> event.title
          [] k = "description" -> event.description
          [] k = "location" -> event.location
          [] k = "start" -> [dateTime |-> event.startDate, utc |-> FALSE]
          [] k = "end" -> [dateTime |-> event.endDate, utc |-> FALSE]
          [] k = "tag" -> event.id]

toRemoteEvent(svc, event) ==
    IF svc = "google" THEN toGoogleEvent(event) ELSE toOutlookEvent(event)

RemoteFields == MirroredFields \cup {"location", "id"}

\* POST: the service stores the transmitted fields under a fresh id
Created(rid, body) ==
    [k \in RemoteFields |->
        IF k = "id" THEN rid
        ELSE IF k \in DOMAIN body THEN body[k] ELSE ""]

\* PUT (Google update): the resource is replaced by the transmitted fields
PutReplace(old, body) ==
    [k \in RemoteFields |->
        IF k = "id" THEN old.id
        ELSE IF k \in DOMAIN body THEN body[k] ELSE ""]

\* PATCH (Outlook update): only the transmitted fields are changed
PatchMerge(old, body) ==
    [k \in RemoteFields |->
        IF k \in DOMAIN body THEN body[k] ELSE old[k]]

\* the update request of each adapter: PUT for Google, PATCH for Outlook
Updated(svc, old, body) ==
    IF svc = "google" THEN PutReplace(old, body) ELSE PatchMerge(old, body)

\* startswith(ep/value, 'epitech-')
StartsWith(s, prefix) ==
    /\ Len(s) >= Len(prefix)
    /\ SubSeq(s, 1, Len(prefix)) = prefix

TagPrefix == <<"epitech-">>

\* the server-side filter of the listing request.  Google:
\* privateExtendedProperty 'epitechId=epitech-' is a propertyName=value
\* constraint, met by events whose epitechId is that value.  Outlook: the
\* $filter asks for startswith(ep/value, 'epitech-').
ListFilter(svc, ev) ==
    IF svc = "google" THEN ev.tag = TagPrefix
    ELSE StartsWith(ev.tag, TagPrefix)

\* the events of a calendar in the order the service lists them (by id)
RECURSIVE SortById(_)
SortById(evs) ==
    IF evs = {} THEN <<>>
    ELSE LET first == CHOOSE e \in evs : \A f \in evs : e.id <= f.id
         IN <<first>> \o SortById(evs \ {first})

RECURSIVE FilterListing(_, _, _)
FilterListing(svc, s, i) ==
    IF i > Len(s) THEN <<>>
    ELSE (IF ListFilter(svc, s[i]) THEN <<s[i]>> ELSE <<>>) \o FilterListing(svc, s, i + 1)

\* what the listing request matches in calendar cal
Listing(svc, cal) == FilterListing(svc, SortById(cal), 1)

\* one page of the listing: items from offset, and the continuation token
Page(svc, cal, offset) ==
    LET all == Listing(svc, cal)
        last == IF offset + PageSize <= Len(all) THEN offset + PageSize ELSE Len(all)
    IN [items |-> SubSeq(all, offset + 1, last),
        next |-> IF last < Len(all) THEN last ELSE 0]

\* getExistingEvents: events.set(epitechId, event) keeps a key's position
\* and replaces its value; the map is a sequence of entries in insertion order
MapHas(m, k) == \E i \in DOMAIN m : m[i].key = k
MapGet(m, k) == m[CHOOSE i \in DOMAIN m : m[i].key = k].value
MapSet(m, k, v) ==
    IF MapHas(m, k)
    THEN [i \in DOMAIN m |-> IF m[i].key = k THEN [key |-> k, value |-> v] ELSE m[i]]
    ELSE Append(m, [key |-> k, value |-> v])

\* a map that holds the items of the latest page only
AddItems_LatestPage(m, items) ==
    [k \in DOMAIN items |-> [key |-> items[k].tag, value |-> items[k]]]

RECURSIVE AddItems(_, _)
AddItems(m, items) ==
    IF items = <<>> THEN m
    ELSE AddItems(IF Head(items).tag # "" THEN MapSet(m, Head(items).tag, Head(items)) ELSE m,
                  Tail(items))

\* id the service gives to a new event
NewId(cal) == CHOOSE n \in 1..(MaxRemote + 1) : n \notin {e.id : e \in cal} /\
                \A m \in 1..(n - 1) : m \in {e.id : e \in cal}

\* ------------------------------------------------------ persisted storage
\* DEFAULT_SETTINGS restricted to the fields the background reads
DefaultService ==
    [enabled |-> FALSE, connected |-> FALSE, calendarId |-> Null, accessToken |-> Null]
ConnectedService ==
    [enabled |-> TRUE, connected |-> TRUE, calendarId |-> "cal", accessToken |-> Null]

DEFAULT_SETTINGS ==
    [autoSync |-> [enabled |-> FALSE, frequency |-> "once_daily"],
     notificationsEnabled |-> TRUE,
     googleCalendar |-> DefaultService,
     outlookCalendar |-> DefaultService,
     lastSyncTimestamp |-> NullTime,
     lastSyncDate |-> NullTime]

\* getSyncStatus: the default when nothing is stored
DefaultStatus ==
    [isConnected |-> FALSE, isSyncing |-> FALSE, lastSync |-> NullTime, lastError |-> NullMsg]

\* { ...current, ...patch }
Merge(current, patch) ==
    [k \in DOMAIN current |-> IF k \in DOMAIN patch THEN patch[k] ELSE current[k]]

ServiceOn(settings, svc) ==
    IF svc = "google"
    THEN settings.googleCalendar.enabled /\ settings.googleCalendar.connected
    ELSE settings.outlookCalendar.enabled /\ settings.outlookCalendar.connected

CalendarId(settings, svc) ==
    IF svc = "google" THEN settings.googleCalendar.calendarId
    ELSE settings.outlookCalendar.calendarId

\* ------------------------------------------------------------------ state
VARIABLES
    isSyncing,   \* the module-level guard flag of the sync manager
    storage,     \* browser.storage.local: settings, status, cachedEvents
    remote,      \* the events held by each remote calendar
    today,       \* the calendar day the clock showed when it was last read
    ctx,         \* per handler invocation: pc and the locals of its frames
    faults,      \* rejected calls the run can still meet
    lastPass,    \* per service: the canonical list of the last finished pass when
                 \* all its remote calls succeeded, else Null
    func,        \* the exported function under study: its arguments, the clock
                 \* it reads and what its calls returned
    pages        \* per open options page: currentSettings, the settings it loaded

vars == <<isSyncing, storage, remote, today, ctx, faults, lastPass, func, pages>>

\* the options pages that are open
Pages == {"options"}
\* a page that has not loaded the settings, and one that has
NotLoaded == [loaded |-> FALSE]
Loaded(settings) == [loaded |-> TRUE, currentSettings |-> settings]
NoPages == [g \in Pages |-> NotLoaded]

\* no function is under study
NoCall == [fn |-> "none"]

NoPass == [clean |-> FALSE, events |-> <<>>]
NoCache == [present |-> FALSE, events |-> <<>>]

EmptyResult ==
    [success |-> TRUE, eventsProcessed |-> 0, eventsCreated |-> 0,
     eventsUpdated |-> 0, eventsDeleted |-> 0, errors |-> <<>>]

AlreadyInProgress ==
    [success |-> FALSE, eventsProcessed |-> 0, eventsCreated |-> 0,
     eventsUpdated |-> 0, eventsDeleted |-> 0, errors |-> <<MsgInProgress>>]

EmptyDetails == [created |-> 0, updated |-> 0, deleted |-> 0, errors |-> <<>>]

\* a handler slot with no invocation
IdleCtx ==
    [pc |-> "idle", handler |-> "none", manual |-> FALSE,
     tookGuard |-> FALSE, result |-> EmptyResult, events |-> <<>>,
     settings |-> Unassigned, current |-> Unassigned, errorMsg |-> NullMsg, thrown |-> NullMsg,
     svc |-> Null, details |-> EmptyDetails, existingEvents |-> <<>>,
     processedIds |-> {}, pageToken |-> 0, i |-> 0, j |-> 0,
     tagsBefore |-> {}, prevPass |-> NoPass, now |-> 0, invoked |-> FALSE, outcome |-> "none",
     calls |-> <<>>, document |-> "", key |-> Null, patch |-> Unassigned, after |-> Null,
     markedOn |-> NullTime, seen |-> {}]

\* the state when the background starts on day `day` with the saved settings
Start(settings, budget, day) ==
    /\ isSyncing = FALSE
    /\ storage = [settings |-> settings, status |-> DefaultStatus, cachedEvents |-> NoCache]
    /\ remote = [svc \in Services |-> {}]
    /\ today = day
    /\ ctx = [p \in Procs |-> IdleCtx]
    /\ faults = budget
    /\ lastPass = [svc \in Services |-> NoPass]
    /\ func = NoCall
    /\ pages = NoPages

\* both services connected and daily auto-sync switched on in the options
\* page; the run stays within one day, the last of the horizon
Init ==
    Start([DEFAULT_SETTINGS EXCEPT !.googleCalendar = ConnectedService,
                                   !.outlookCalendar = ConnectedService,
                                   !.autoSync.enabled = TRUE],
          MaxFaults, MaxDay)

\* a call may be rejected while the run's budget of rejections lasts
CanFail == faults > 0

Log(c, svc, op, id, ok) ==
    Append(c.calls, [svc |-> svc, op |-> op, id |-> id, ok |-> ok, status |-> "-"])

\* the same for a remote calendar request answered with the HTTP status o
Refused(c, svc, op, id, o) ==
    Append(c.calls, [svc |-> svc, op |-> op, id |-> id, ok |-> FALSE, status |-> o])

\* -------------------------------------------- performSync: control flow
\* the invocation settles: the promise resolves with result or rejects
Returned(c) == [c EXCEPT !.pc = "done", !.outcome = "returned"]
Rejected(c, msg) == [c EXCEPT !.pc = "done", !.outcome = "rejected", !.thrown = msg]

\* catch (error) of performSync, up to `await updateSyncStatus({lastError})`
EnterCatch(c, msg) ==
    [c EXCEPT !.result = [c.result EXCEPT !.success = FALSE,
                                          !.errors = Append(c.result.errors, msg)],
              !.errorMsg = msg,
              !.pc = "catch_status_get"]

\* finally of performSync, up to `await updateSyncStatus({isSyncing: false})`;
\* the flag itself is reset by the action that enters the block.  Of the
\* locals of the try and catch blocks only result, returned after the
\* block, is still in use; markedOn keeps the day markSyncCompleted wrote
EnterFinally(c, thrown) ==
    [IdleCtx EXCEPT !.handler = c.handler, !.manual = c.manual,
                    !.invoked = c.invoked, !.tookGuard = c.tookGuard,
                    !.result = c.result, !.calls = c.calls,
                    !.markedOn = c.markedOn,
                    !.thrown = thrown, !.pc = "finally_get"]

\* markSyncCompleted, up to the read of saveSettings: `now` and `today`
\* are taken when the function is entered
EnterMark(c, env) == [c EXCEPT !.now = env.today, !.pc = "mark_settings_get"]

\* syncToGoogleCalendar / syncToOutlookCalendar called, up to `await getSettings()`
StartPass(c, svc, env) ==
    [c EXCEPT !.svc = svc, !.details = EmptyDetails, !.existingEvents = <<>>,
              !.processedIds = {}, !.pageToken = 0, !.i = 0, !.j = 0,
              !.tagsBefore = {e.tag : e \in env.remote[svc]},
              !.prevPass = env.lastPass[svc],
              !.pc = "pass_settings"]

\* the second service skipped once the first one reported an error
AfterService_SkipAfterError(c, svc, env) ==
    IF svc = "google" /\ ServiceOn(c.settings, "outlook") /\ c.result.errors = <<>>
    THEN StartPass(c, "outlook", env)
    ELSE EnterMark(c, env)

\* what follows a service's block in performSync
AfterService(c, svc, env) ==
    IF svc = "google" /\ ServiceOn(c.settings, "outlook")
    THEN StartPass(c, "outlook", env)
    ELSE EnterMark(c, env)

\* the Outlook block entered first
StartServices_OutlookFirst(c, env) ==
    IF ServiceOn(c.settings, "outlook") THEN StartPass(c, "outlook", env)
    ELSE IF ServiceOn(c.settings, "google") THEN StartPass(c, "google", env)
    ELSE EnterMark(c, env)

\* performSync after `const settings = await getSettings()`
StartServices(c, env) ==
    IF ServiceOn(c.settings, "google") THEN StartPass(c, "google", env)
    ELSE IF ServiceOn(c.settings, "outlook") THEN StartPass(c, "outlook", env)
    ELSE EnterMark(c, env)

ServicePrefix(svc) == IF svc = "google" THEN <<"Google: ">> ELSE <<"Outlook: ">>
ServiceFailed(svc) ==
    IF svc = "google" THEN <<"Google Calendar sync failed: ">>
    ELSE <<"Outlook Calendar sync failed: ">>
NotConnected(svc) ==
    IF svc = "google" THEN <<"Google Calendar not connected">>
    ELSE <<"Outlook Calendar not connected">>

\* the pass returned its details: performSync adds the counts and the
\* prefixed errors; a direct caller of the exported function receives them
PassReturned(c, env) ==
    LET d == c.details
        r == c.result
        r2 == [r EXCEPT !.eventsCreated = @ + d.created,
                        !.eventsUpdated = @ + d.updated,
                        !.eventsDeleted = @ + d.deleted,
                        !.errors = @ \o [k \in DOMAIN d.errors |->
                                            ServicePrefix(c.svc) \o d.errors[k]]]
    IN IF c.handler = "syncToCalendar" THEN Returned(c)
       ELSE AfterService([c EXCEPT !.result = r2], c.svc, env)

\* the pass threw: the catch around the service's block records it; a
\* direct caller of the exported function receives the exception
PassThrew(c, msg, env) ==
    IF c.handler = "syncToCalendar" THEN Rejected(c, msg)
    ELSE AfterService([c EXCEPT !.result.errors = Append(@, ServiceFailed(c.svc) \o msg)],
                      c.svc, env)

\* the outer catch of syncTo...Calendar: the listing failed
ListFailed(c, msg, env) ==
    PassReturned([c EXCEPT !.details.errors = Append(@, msg)], env)

\* the delete loop from entry j on: the next stale entry, or the return
RECURSIVE BeginDelete(_, _, _)
BeginDelete(c, j, env) ==
    IF j > Len(c.existingEvents) THEN PassReturned(c, env)
    ELSE IF c.existingEvents[j].key \notin c.processedIds
         THEN [c EXCEPT !.j = j, !.pc = "pass_delete"]
         ELSE BeginDelete(c, j + 1, env)

\* the create-or-update loop from event i on
BeginEvent(c, i, env) ==
    IF i <= Len(c.events)
    THEN [c EXCEPT !.i = i, !.processedIds = @ \cup {c.events[i].id},
                   !.pc = "pass_event"]
    ELSE BeginDelete(c, 1, env)

\* performSync without the test of the flag
EnterPerformSync_Unguarded(c, manual, flag) ==
    [c EXCEPT !.invoked = TRUE, !.manual = manual, !.tookGuard = TRUE,
              !.result = EmptyResult, !.pc = "sync_status_get"]

\* performSync called: the guard, and when it lets the call through the
\* flag is set and `await updateSyncStatus({isSyncing: true, ...})` starts
EnterPerformSync(c, manual, flag) ==
    IF flag
    THEN Returned([c EXCEPT !.invoked = TRUE, !.manual = manual,
                            !.result = AlreadyInProgress])
    ELSE [c EXCEPT !.invoked = TRUE, !.manual = manual, !.tookGuard = TRUE,
                   !.result = EmptyResult, !.pc = "sync_status_get"]

\* shouldAutoSync
shouldAutoSync(settings, day) ==
    IF ~settings.autoSync.enabled THEN FALSE
    ELSE IF settings.autoSync.frequency = "every_visit" THEN TRUE
    ELSE IF settings.autoSync.frequency = "once_daily" THEN settings.lastSyncDate # day
    ELSE FALSE

\* ------------------------------------------------------- step bookkeeping
PassLabels == {"pass_settings", "pass_list", "pass_event", "pass_delete"}

\* the labels between the guard and the finally block of performSync
GuardedLabels ==
    {"sync_status_get", "sync_status_set", "sync_auth", "connected_get",
     "connected_set", "fetch_settings", "fetch", "cache", "settings",
     "mark_settings_get", "mark_settings_set", "mark_status_get",
     "mark_status_set", "notify", "catch_status_get", "catch_status_set",
     "catch_settings", "catch_notify"} \cup PassLabels

FinallyLabels == {"finally_get", "finally_set"}

\* the pass reached svc and every remote call it made to svc succeeded
CleanCalls(calls, svc) ==
    /\ \E k \in DOMAIN calls : calls[k].svc = svc
    /\ \A k \in DOMAIN calls : calls[k].svc = svc => calls[k].ok

\* the flag reset as soon as the catch block is entered
FlagAfter_ResetInCatch(c, c2, flag) ==
    IF c2.pc \in {"finally_get", "catch_status_get"} THEN FALSE
    ELSE IF c2.tookGuard /\ ~c.tookGuard THEN TRUE
    ELSE flag

\* the guard flag after an invocation moved from c to c2: `isSyncing = true`
\* when the call got through the guard, `isSyncing = false` when the finally
\* block is entered
FlagAfter(c, c2, flag) ==
    IF c2.pc = "finally_get" THEN FALSE
    ELSE IF c2.tookGuard /\ ~c.tookGuard THEN TRUE
    ELSE flag

\* invocation p moves from ctx[p] to c2; a day it read off the clock
\* (c2.now) becomes the day last read; a pass called on its own is recorded
\* in lastPass when it settles
Commit(p, c2) ==
    LET c == ctx[p] IN
    /\ ctx' = [ctx EXCEPT ![p] = c2]
    /\ isSyncing' = FlagAfter(c, c2, isSyncing)
    /\ today' = IF c2.now > today THEN c2.now ELSE today
    /\ lastPass' = IF c.handler = "syncToCalendar" /\ c.pc \in PassLabels
                         /\ c2.pc \notin PassLabels
                   THEN [lastPass EXCEPT ![c.svc] =
                            IF CleanCalls(c2.calls, c.svc)
                            THEN [clean |-> TRUE, events |-> c.events]
                            ELSE NoPass]
                   ELSE lastPass
    /\ UNCHANGED <<func, pages>>

\* a settled invocation's frame is gone once its reply is delivered, which
\* happens before the event loop runs another continuation
NoneSettled == \A q \in Procs : ctx[q].pc # "done"

\* the awaited call succeeded
Ok(p, c2, st, rem) ==
    /\ NoneSettled
    /\ Commit(p, c2)
    /\ storage' = st
    /\ remote' = rem
    /\ UNCHANGED faults

\* the awaited call was rejected
Fault(p, c2) ==
    /\ NoneSettled
    /\ CanFail
    /\ faults' = faults - 1
    /\ Commit(p, c2)
    /\ UNCHANGED <<storage, remote>>

\* what the synchronous code after a step can see: the remote calendars
\* after the step, the day d the clock shows, and the record of the
\* finished passes
Env(d) == [remote |-> remote, today |-> d, lastPass |-> lastPass]
EnvWith(rem, d) == [remote |-> rem, today |-> d, lastPass |-> lastPass]

\* the days the clock can show at the next read: time does not go back
Days == today..MaxDay

\* ------------------------------------------------------ message handlers
\* the listener is invoked once per message, in the order of arrival: the
\* slots are taken in order, p1 for the first message
Arrives(p) ==
    /\ ctx[p].pc = "idle"
    /\ p = "p2" => ctx["p1"].pc # "idle"

\* TRIGGER_SYNC: handleTriggerSync calls performSync(payload?.manual ?? true);
\* the popup sends {manual: true}
TriggerSync(p) ==
    /\ Arrives(p)
    /\ Ok(p, EnterPerformSync([ctx[p] EXCEPT !.handler = "TRIGGER_SYNC"], TRUE, isSyncing),
          storage, remote)

\* the days on which markSyncCompleted has marked a pass completed
MarkedDays == {ctx[q].markedOn : q \in Procs} \ {NullTime}

\* INTRANET_VISITED: handleIntranetVisited, up to `await checkAuthentication()`;
\* `seen` records what had been marked completed when the message came
IntranetVisited(p) ==
    /\ Arrives(p)
    /\ Ok(p, [ctx[p] EXCEPT !.handler = "INTRANET_VISITED", !.pc = "iv_auth",
                            !.seen = MarkedDays],
          storage, remote)

\* checkAuthentication resolved (it never rejects)
IvAuth(p) ==
    /\ ctx[p].pc = "iv_auth"
    /\ \E authenticated \in BOOLEAN :
         Ok(p, IF authenticated THEN [ctx[p] EXCEPT !.pc = "iv_status_get"]
               ELSE [ctx[p] EXCEPT !.pc = "done"],
            storage, remote)

\* updateSyncStatus({isConnected: true}): the read
IvStatusGet(p) ==
    /\ ctx[p].pc = "iv_status_get"
    /\ \/ Ok(p, [ctx[p] EXCEPT !.current = storage.status, !.pc = "iv_status_set"],
             storage, remote)
       \/ Fault(p, [ctx[p] EXCEPT !.pc = "done", !.thrown = MsgStorage])

\* updateSyncStatus({isConnected: true}): the write; then checkAndSync
\* starts `await shouldAutoSync()`
IvStatusSet(p) ==
    /\ ctx[p].pc = "iv_status_set"
    /\ \/ Ok(p, [ctx[p] EXCEPT !.pc = "iv_should"],
             [storage EXCEPT !.status = Merge(ctx[p].current, [isConnected |-> TRUE])],
             remote)
       \/ Fault(p, [ctx[p] EXCEPT !.pc = "done", !.thrown = MsgStorage])

\* shouldAutoSync resolved: checkAndSync calls performSync(false) or skips
IvShouldAutoSync(p) ==
    \E d \in Days :
    /\ ctx[p].pc = "iv_should"
    /\ \/ Ok(p, IF shouldAutoSync(storage.settings, d)
                THEN EnterPerformSync([ctx[p] EXCEPT !.now = d], FALSE, isSyncing)
                ELSE [ctx[p] EXCEPT !.now = d, !.pc = "done"],
             storage, remote)
       \/ Fault(p, [ctx[p] EXCEPT !.pc = "done", !.thrown = MsgStorage])

\* syncToGoogleCalendar(events) / syncToOutlookCalendar(events) called on
\* its own for the connected service, with a list the planning can yield
SyncToCalendar(p, feed) ==
    /\ ctx[p].pc = "idle"
    /\ \E svc \in Services, events \in feed :
         /\ ServiceOn(storage.settings, svc)
         /\ Ok(p, StartPass([ctx[p] EXCEPT !.handler = "syncToCalendar", !.events = events],
                            svc, Env(today)),
               storage, remote)

\* the handler's reply was delivered and its frame is gone; a run handles
\* one message per slot
Reply(p) ==
    /\ ctx[p].pc = "done"
    /\ ctx[p].handler # "syncToCalendar"
    /\ Commit(p, [IdleCtx EXCEPT !.pc = "closed"])
    /\ UNCHANGED <<storage, remote, faults>>

\* the direct caller of a pass received its details and may call again
Return(p) ==
    /\ ctx[p].pc = "done"
    /\ ctx[p].handler = "syncToCalendar"
    /\ Commit(p, IdleCtx)
    /\ UNCHANGED <<storage, remote, faults>>

\* ------------------------------------------------------------ performSync
\* line 230, `await updateSyncStatus({isSyncing: true, lastError: null})`:
\* the read.  The statement is before the try block.
SyncStatusGet(p) ==
    /\ ctx[p].pc = "sync_status_get"
    /\ \/ Ok(p, [ctx[p] EXCEPT !.current = storage.status, !.pc = "sync_status_set"],
             storage, remote)
       \/ Fault(p, Rejected(ctx[p], MsgStorage))

\* line 230: the write; then the try block starts `await checkAuthentication()`
SyncStatusSet(p) ==
    /\ ctx[p].pc = "sync_status_set"
    /\ \/ Ok(p, [ctx[p] EXCEPT !.pc = "sync_auth"],
             [storage EXCEPT !.status =
                 Merge(ctx[p].current, [isSyncing |-> TRUE, lastError |-> NullMsg])],
             remote)
       \/ Fault(p, Rejected(ctx[p], MsgStorage))

\* checkAuthentication resolved; unauthenticated throws into the catch
SyncAuth(p) ==
    /\ ctx[p].pc = "sync_auth"
    /\ \E authenticated \in BOOLEAN :
         LET c == [ctx[p] EXCEPT !.calls = Log(ctx[p], "intranet", "auth", NullMsg, authenticated)]
         IN Ok(p, IF authenticated THEN [c EXCEPT !.pc = "connected_get"]
                  ELSE EnterCatch(c, MsgNotAuthenticated),
               storage, remote)

\* `await updateSyncStatus({isConnected: true})`: the read
ConnectedGet(p) ==
    /\ ctx[p].pc = "connected_get"
    /\ \/ Ok(p, [ctx[p] EXCEPT !.current = storage.status, !.pc = "connected_set"],
             storage, remote)
       \/ Fault(p, EnterCatch(ctx[p], MsgStorage))

\* the write; then getEventsForSync starts `await getSettings()`
ConnectedSet(p) ==
    /\ ctx[p].pc = "connected_set"
    /\ \/ Ok(p, [ctx[p] EXCEPT !.pc = "fetch_settings"],
             [storage EXCEPT !.status = Merge(ctx[p].current, [isConnected |-> TRUE])],
             remote)
       \/ Fault(p, EnterCatch(ctx[p], MsgStorage))

\* getEventsForSync: the settings read, then fetchPlanningEvents starts
FetchSettings(p) ==
    /\ ctx[p].pc = "fetch_settings"
    /\ \/ Ok(p, [ctx[p] EXCEPT !.pc = "fetch"], storage, remote)
       \/ Fault(p, EnterCatch(ctx[p], MsgStorage))

\* getEventsForSync: the planning request resolved with the records the
\* user owns, transformed; then `await cacheEvents(events)` starts
Fetch(p, feed) ==
    /\ ctx[p].pc = "fetch"
    /\ \/ \E events \in feed :
            Ok(p, [ctx[p] EXCEPT !.events = events,
                                 !.result.eventsProcessed = Len(events),
                                 !.calls = Log(ctx[p], "intranet", "fetch", NullMsg, TRUE),
                                 !.pc = "cache"],
               storage, remote)
       \/ \E msg \in {MsgFetchAuth, MsgFetchHttp} :
            Fault(p, EnterCatch([ctx[p] EXCEPT !.calls = Log(ctx[p], "intranet", "fetch", NullMsg, FALSE)],
                                msg))

\* cacheEvents: the write; then `await getSettings()` starts
Cache(p) ==
    /\ ctx[p].pc = "cache"
    /\ \/ Ok(p, [ctx[p] EXCEPT !.pc = "settings"],
             [storage EXCEPT !.cachedEvents = [present |-> TRUE, events |-> ctx[p].events]], remote)
       \/ Fault(p, EnterCatch(ctx[p], MsgStorage))

\* `const settings = await getSettings()`; then the first enabled and
\* connected service's pass is called, or markSyncCompleted
Settings(p) ==
    \E d \in Days :
    /\ ctx[p].pc = "settings"
    /\ \/ Ok(p, StartServices([ctx[p] EXCEPT !.settings = storage.settings], Env(d)),
             storage, remote)
       \/ Fault(p, EnterCatch(ctx[p], MsgStorage))

\* ------------------------- syncToGoogleCalendar / syncToOutlookCalendar
FailedResponses == {"401", "500"}

\* `const settings = await getSettings()` of the pass; without a calendarId
\* the pass throws, otherwise getExistingEvents requests the first page
PassSettings(p) ==
    \E d \in Days :
    LET c == ctx[p] IN
    /\ c.pc = "pass_settings"
    /\ \/ Ok(p, IF CalendarId(storage.settings, c.svc) = Null
                THEN PassThrew(c, NotConnected(c.svc), Env(d))
                ELSE [c EXCEPT !.pc = "pass_list"],
             storage, remote)
       \/ Fault(p, PassThrew(c, MsgStorage, Env(d)))

\* getExistingEvents: one page of the listing arrived; the tagged items are
\* put in the map, and the next page is requested while the response
\* carries a continuation token; after the last page the loops start
PassList(p) ==
    \E d \in Days :
    LET c == ctx[p] IN
    /\ c.pc = "pass_list"
    /\ \/ LET page == Page(c.svc, remote[c.svc], c.pageToken)
              c2 == [c EXCEPT !.existingEvents = AddItems(@, page.items),
                              !.pageToken = page.next,
                              !.calls = Log(c, c.svc, "list", NullMsg, TRUE)]
          IN Ok(p, IF page.next # 0 THEN c2 ELSE BeginEvent(c2, 1, Env(d)),
                storage, remote)
       \/ \E o \in FailedResponses :
            Fault(p, ListFailed([c EXCEPT !.calls = Refused(c, c.svc, "list", NullMsg, o)],
                                ApiError(c.svc, o), Env(d)))

\* a failed create or update that ends the pass
EventFailed_Abort(c, id, msg, env) ==
    PassReturned([c EXCEPT !.details.errors = Append(@, <<"Event ">> \o id \o <<": ">> \o msg)],
                 env)

\* the catch inside the create-or-update loop
EventFailed(c, id, msg, env) ==
    BeginEvent([c EXCEPT !.details.errors = Append(@, <<"Event ">> \o id \o <<": ">> \o msg)],
               c.i + 1, env)

\* a failed delete passed over without an error entry
DeleteFailed_Silent(c, id, msg, env) == BeginDelete(c, c.j + 1, env)

\* the catch inside the delete loop
DeleteFailed(c, id, msg, env) ==
    BeginDelete([c EXCEPT !.details.errors = Append(@, <<"Delete ">> \o id \o <<": ">> \o msg)],
                c.j + 1, env)

\* the request for events[i] resolved: an update of the listed remote event
\* when the map has the id, a create otherwise
PassEvent(p) ==
    \E d \in Days :
    LET c == ctx[p]
        event == c.events[c.i]
        body == toRemoteEvent(c.svc, event)
        cal == remote[c.svc]
    IN
    /\ c.pc = "pass_event"
    /\ IF MapHas(c.existingEvents, event.id)
       THEN LET existing == MapGet(c.existingEvents, event.id) IN
            \/ /\ \E e \in cal : e.id = existing.id
               /\ LET old == CHOOSE e \in cal : e.id = existing.id
                      rem == [remote EXCEPT ![c.svc] = (cal \ {old}) \cup {Updated(c.svc, old, body)}]
                      c2 == [c EXCEPT !.details.updated = @ + 1,
                                      !.calls = Log(c, c.svc, "update", event.id, TRUE)]
                  IN Ok(p, BeginEvent(c2, c.i + 1, EnvWith(rem, d)), storage, rem)
            \/ \E o \in FailedResponses :
                 Fault(p, EventFailed([c EXCEPT !.calls = Refused(c, c.svc, "update", event.id, o)],
                                      event.id, ApiError(c.svc, o), Env(d)))
       ELSE \/ /\ Cardinality(cal) < MaxRemote
               /\ LET rem == [remote EXCEPT ![c.svc] = cal \cup {Created(NewId(cal), body)}]
                      c2 == [c EXCEPT !.details.created = @ + 1,
                                      !.calls = Log(c, c.svc, "create", event.id, TRUE)]
                  IN Ok(p, BeginEvent(c2, c.i + 1, EnvWith(rem, d)), storage, rem)
            \/ \E o \in FailedResponses :
                 Fault(p, EventFailed([c EXCEPT !.calls = Refused(c, c.svc, "create", event.id, o)],
                                      event.id, ApiError(c.svc, o), Env(d)))
            \/ /\ Cardinality(cal) >= MaxRemote
               /\ Ok(p, EventFailed([c EXCEPT !.calls = Refused(c, c.svc, "create", event.id, "500")],
                                    event.id, ApiError(c.svc, "500"), Env(d)),
                     storage, remote)

\* the delete request for the stale map entry j resolved
PassDelete(p) ==
    \E d \in Days :
    LET c == ctx[p]
        entry == c.existingEvents[c.j]
        cal == remote[c.svc]
    IN
    /\ c.pc = "pass_delete"
    /\ \/ LET rem == [remote EXCEPT ![c.svc] = {e \in cal : e.id # entry.value.id}]
              c2 == [c EXCEPT !.details.deleted = @ + 1,
                              !.calls = Log(c, c.svc, "delete", entry.key, TRUE)]
          IN Ok(p, BeginDelete(c2, c.j + 1, EnvWith(rem, d)), storage, rem)
       \/ \E o \in FailedResponses :
            Fault(p, DeleteFailed([c EXCEPT !.calls = Refused(c, c.svc, "delete", entry.key, o)],
                                  entry.key, ApiError(c.svc, o), Env(d)))

\* --------------------------------------- performSync: completion and cleanup
\* after markSyncCompleted with result.success left as it was initialised
AfterMark_SuccessKept(c) ==
    LET c2 == [c EXCEPT !.markedOn = c.now]
    IN IF c.settings.notificationsEnabled /\ c.manual
       THEN [c2 EXCEPT !.pc = "notify"]
       ELSE EnterFinally(c2, NullMsg)

\* after markSyncCompleted: `result.success = result.errors.length === 0`,
\* then the notification when enabled and manual, else the finally block
AfterMark(c) ==
    LET c2 == [c EXCEPT !.result.success = (c.result.errors = <<>>),
                        !.markedOn = c.now]
    IN IF c.settings.notificationsEnabled /\ c.manual
       THEN [c2 EXCEPT !.pc = "notify"]
       ELSE EnterFinally(c2, NullMsg)

\* markSyncCompleted, saveSettings: the read
MarkSettingsGet(p) ==
    /\ ctx[p].pc = "mark_settings_get"
    /\ \/ Ok(p, [ctx[p] EXCEPT !.current = storage.settings, !.pc = "mark_settings_set"],
             storage, remote)
       \/ Fault(p, EnterCatch(ctx[p], MsgStorage))

\* markSyncCompleted, saveSettings: the write
MarkSettingsSet(p) ==
    /\ ctx[p].pc = "mark_settings_set"
    /\ \/ Ok(p, [ctx[p] EXCEPT !.pc = "mark_status_get"],
             [storage EXCEPT !.settings =
                 Merge(ctx[p].current, [lastSyncTimestamp |-> ctx[p].now,
                                        lastSyncDate |-> ctx[p].now])],
             remote)
       \/ Fault(p, EnterCatch(ctx[p], MsgStorage))

\* markSyncCompleted, updateSyncStatus: the read
MarkStatusGet(p) ==
    /\ ctx[p].pc = "mark_status_get"
    /\ \/ Ok(p, [ctx[p] EXCEPT !.current = storage.status, !.pc = "mark_status_set"],
             storage, remote)
       \/ Fault(p, EnterCatch(ctx[p], MsgStorage))

\* markSyncCompleted, updateSyncStatus({lastSync: now, lastError: null}): the write
MarkStatusSet(p) ==
    /\ ctx[p].pc = "mark_status_set"
    /\ \/ Ok(p, AfterMark(ctx[p]),
             [storage EXCEPT !.status =
                 Merge(ctx[p].current, [lastSync |-> ctx[p].now, lastError |-> NullMsg])],
             remote)
       \/ Fault(p, EnterCatch(ctx[p], MsgStorage))

\* showNotification(result) resolved
Notify(p) ==
    /\ ctx[p].pc = "notify"
    /\ \/ Ok(p, EnterFinally([ctx[p] EXCEPT !.calls = Log(ctx[p], "notification", "create", NullMsg, TRUE)],
                             NullMsg),
             storage, remote)
       \/ Fault(p, EnterCatch([ctx[p] EXCEPT !.calls = Log(ctx[p], "notification", "create", NullMsg, FALSE)],
                               MsgNotification))

\* catch: `await updateSyncStatus({lastError: errorMsg})`, the read
CatchStatusGet(p) ==
    /\ ctx[p].pc = "catch_status_get"
    /\ \/ Ok(p, [ctx[p] EXCEPT !.current = storage.status, !.pc = "catch_status_set"],
             storage, remote)
       \/ Fault(p, EnterFinally(ctx[p], MsgStorage))

\* catch: the write; then `await getSettings()`
CatchStatusSet(p) ==
    /\ ctx[p].pc = "catch_status_set"
    /\ \/ Ok(p, [ctx[p] EXCEPT !.pc = "catch_settings"],
             [storage EXCEPT !.status = Merge(ctx[p].current, [lastError |-> ctx[p].errorMsg])],
             remote)
       \/ Fault(p, EnterFinally(ctx[p], MsgStorage))

\* catch: the settings arrived; the error notification when enabled
CatchSettings(p) ==
    /\ ctx[p].pc = "catch_settings"
    /\ \/ Ok(p, IF storage.settings.notificationsEnabled
                THEN [ctx[p] EXCEPT !.pc = "catch_notify"]
                ELSE EnterFinally(ctx[p], NullMsg),
             storage, remote)
       \/ Fault(p, EnterFinally(ctx[p], MsgStorage))

\* catch: browser.notifications.create resolved
CatchNotify(p) ==
    /\ ctx[p].pc = "catch_notify"
    /\ \/ Ok(p, EnterFinally([ctx[p] EXCEPT !.calls = Log(ctx[p], "notification", "create", NullMsg, TRUE)],
                             NullMsg),
             storage, remote)
       \/ Fault(p, EnterFinally([ctx[p] EXCEPT !.calls = Log(ctx[p], "notification", "create", NullMsg, FALSE)],
                                 MsgNotification))

\* the end of performSync: an exception pending from the catch block is
\* rethrown, otherwise `return result`
Settle(c) == IF c.thrown # NullMsg THEN Rejected(c, c.thrown) ELSE Returned(c)

\* finally: `await updateSyncStatus({isSyncing: false})`, the read
FinallyGet(p) ==
    /\ ctx[p].pc = "finally_get"
    /\ \/ Ok(p, [ctx[p] EXCEPT !.current = storage.status, !.pc = "finally_set"],
             storage, remote)
       \/ Fault(p, Rejected(ctx[p], MsgStorage))

\* finally: the write
FinallySet(p) ==
    /\ ctx[p].pc = "finally_set"
    /\ \/ Ok(p, Settle(ctx[p]),
             [storage EXCEPT !.status = Merge(ctx[p].current, [isSyncing |-> FALSE])],
             remote)
       \/ Fault(p, Rejected(ctx[p], MsgStorage))

\* ---------------------------------------------------------- specifications
\* the steps of one performSync invocation
SyncStep(p, feed) ==
    \/ SyncStatusGet(p)
    \/ SyncStatusSet(p)
    \/ SyncAuth(p)
    \/ ConnectedGet(p)
    \/ ConnectedSet(p)
    \/ FetchSettings(p)
    \/ Fetch(p, feed)
    \/ Cache(p)
    \/ Settings(p)
    \/ PassSettings(p)
    \/ PassList(p)
    \/ PassEvent(p)
    \/ PassDelete(p)
    \/ MarkSettingsGet(p)
    \/ MarkSettingsSet(p)
    \/ MarkStatusGet(p)
    \/ MarkStatusSet(p)
    \/ Notify(p)
    \/ CatchStatusGet(p)
    \/ CatchStatusSet(p)
    \/ CatchSettings(p)
    \/ CatchNotify(p)
    \/ FinallyGet(p)
    \/ FinallySet(p)

\* the background with two concurrently pending handler invocations
Next ==
    \/ \E p \in Procs :
         \/ TriggerSync(p)
         \/ IntranetVisited(p)
         \/ IvAuth(p)
         \/ IvStatusGet(p)
         \/ IvStatusSet(p)
         \/ IvShouldAutoSync(p)
         \/ Reply(p)
         \/ SyncStep(p, FeedSmall)

Spec == Init /\ [][Next]_vars

\* reconciliation passes one after the other against one connected remote
\* service, over the richer planning feed
InitRec ==
    \/ Start([DEFAULT_SETTINGS EXCEPT !.googleCalendar = ConnectedService],
             MaxPassFaults, MaxDay)
    \/ Start([DEFAULT_SETTINGS EXCEPT !.outlookCalendar = ConnectedService],
             MaxPassFaults, MaxDay)

NextRec ==
    \/ SyncToCalendar("p1", FeedRich)
    \/ PassSettings("p1")
    \/ PassList("p1")
    \/ PassEvent("p1")
    \/ PassDelete("p1")
    \/ Return("p1")

SpecRec == InitRec /\ [][NextRec]_vars


\* ===================================================================
\* Properties of performSync under Spec
\* ===================================================================
\* an invocation of performSync that has not settled
Unresolved(c) == c.invoked /\ c.outcome = "none"

\* the invocation was turned away by the guard: it settled with the
\* 'Sync already in progress' result and made no network call
TurnedAway(c) ==
    /\ c.pc = "done"
    /\ c.outcome = "returned"
    /\ c.result = AlreadyInProgress
    /\ c.calls = <<>>

\* C1 as stated: whenever performSync is invoked while an earlier invocation
\* has not yet resolved, the later invocation resolves at once with the
\* single error 'Sync already in progress' and makes no network call.
C1_AsStated ==
    [][\A p \in Procs :
         (~ctx[p].invoked /\ ctx'[p].invoked
            /\ \E q \in Procs \ {p} : Unresolved(ctx[q]))
         => TurnedAway(ctx'[p])]_vars

\* C1 amended: whenever performSync is invoked while an earlier invocation
\* is between the guard and the entry of its finally block, the later
\* invocation resolves at once with the single error 'Sync already in
\* progress' and makes no network call.
C1_TurnedAwayWhileGuarded ==
    [][\A p \in Procs :
         (~ctx[p].invoked /\ ctx'[p].invoked
            /\ \E q \in Procs \ {p} : ctx[q].pc \in GuardedLabels)
         => TurnedAway(ctx'[p])]_vars

\* C1 witness: an invocation was turned away while the other one is in the
\* middle of a service's pass
C1_Witness ==
    \E p \in Procs : \E q \in Procs \ {p} :
        /\ ctx[q].pc \in PassLabels
        /\ ctx[p].invoked
        /\ TurnedAway(ctx[p])

\* the invocation got through the guard and has not settled
PastGuard(c) == c.tookGuard /\ c.outcome = "none"

\* C2 as stated: there are never two invocations of performSync that are
\* both past the guard and both not yet finished.
C2_AsStated ==
    \A p \in Procs : \A q \in Procs \ {p} :
        ~(PastGuard(ctx[p]) /\ PastGuard(ctx[q]))

\* C2 amended: there are never two invocations of performSync that are both
\* between the guard and the entry of their finally block, so the
\* authentication check, the fetch and the remote reconciliation of two
\* invocations never interleave.
C2_OneInGuardedRegion ==
    \A p \in Procs : \A q \in Procs \ {p} :
        ~(ctx[p].pc \in GuardedLabels /\ ctx[q].pc \in GuardedLabels)

\* C2 witness: one invocation reconciles a remote calendar while the other,
\* which got through the guard earlier, is still in its finally block
C2_Witness ==
    \E p \in Procs : \E q \in Procs \ {p} :
        /\ ctx[p].pc \in PassLabels
        /\ ctx[q].pc \in FinallyLabels

\* C3 as stated: the guard flag returns to idle whatever step failed: it is
\* set only while an invocation that set it is still between the guard and
\* its finally block, so a finished invocation never leaves it set.
C3_FlagReturnsToIdle ==
    isSyncing => \E p \in Procs : ctx[p].pc \in GuardedLabels

\* C10 as stated: an invocation of performSync never rejects; it always
\* resolves with a result.
C10_NeverRejects ==
    \A p \in Procs : ctx[p].invoked => ctx[p].outcome # "rejected"

\* ===================================================================
\* Properties of one service's pass under SpecRec
\* ===================================================================
Mutations == {"create", "update", "delete"}

\* the requests of kind op the pass sent to svc for the event id
CallsFor(c, svc, ops, id) ==
    {k \in DOMAIN c.calls :
        c.calls[k].svc = svc /\ c.calls[k].op \in ops /\ c.calls[k].id = id}

\* the successful requests of kind op sent to svc
Succeeded(c, svc, op) ==
    {k \in DOMAIN c.calls :
        c.calls[k].svc = svc /\ c.calls[k].op = op /\ c.calls[k].ok}

\* the ids the requests of the pass name
CalledIds(c) == {c.calls[k].id : k \in DOMAIN c.calls} \ {NullMsg}

AllOk(c) == \A k \in DOMAIN c.calls : c.calls[k].ok

\* the listing of svc was requested and every page of it arrived
ListOk(c, svc) ==
    /\ \E k \in DOMAIN c.calls : c.calls[k].svc = svc /\ c.calls[k].op = "list"
    /\ \A k \in DOMAIN c.calls :
         (c.calls[k].svc = svc /\ c.calls[k].op = "list") => c.calls[k].ok

\* a direct call of syncToGoogleCalendar / syncToOutlookCalendar settled
PassDone(c) == c.handler = "syncToCalendar" /\ c.pc = "done"

\* such a call returned and none of its requests failed
PassClean(c) == PassDone(c) /\ c.outcome = "returned" /\ AllOk(c)

\* C4 as stated: when every remote call succeeds, a pass over the canonical
\* list C on a calendar whose tagged events carry the ids R issues exactly
\* one create for each id of C \ R, one update for each id of C \cap R and
\* one delete for each id of R \ C, and reports their numbers as created,
\* updated and deleted; for both adapters.
C4_DiffAsStated ==
    \A p \in Procs :
        LET c == ctx[p]
            C == EventIds(c.events)
            R == c.tagsBefore
            Issued(op, ids) ==
                \A id \in C \cup R \cup CalledIds(c) :
                    Cardinality(CallsFor(c, c.svc, {op}, id)) = IF id \in ids THEN 1 ELSE 0
        IN PassClean(c) =>
             /\ Issued("create", C \ R)
             /\ Issued("update", C \cap R)
             /\ Issued("delete", R \ C)
             /\ c.details.created = Cardinality(C \ R)
             /\ c.details.updated = Cardinality(C \cap R)
             /\ c.details.deleted = Cardinality(R \ C)

\* C5 as stated: after a pass in which every call succeeded, the tagged
\* events of the remote calendar are in one-to-one correspondence with the
\* canonical list: one remote event per canonical id and no other.
C5_OneToOneAsStated ==
    \A p \in Procs :
        LET c == ctx[p]
            cal == remote[c.svc]
        IN PassClean(c) =>
             /\ \A id \in EventIds(c.events) :
                    Cardinality({e \in cal : e.tag = id}) = 1
             /\ \A e \in cal : e.tag \in EventIds(c.events)

\* C6 as stated: a pass that follows a clean pass over the same canonical
\* list, with every call succeeding, creates nothing, deletes nothing and
\* updates every canonical event.
C6_IdempotentAsStated ==
    \A p \in Procs :
        LET c == ctx[p] IN
        (PassClean(c) /\ c.prevPass.clean /\ c.prevPass.events = c.events) =>
             /\ c.details.created = 0
             /\ c.details.deleted = 0
             /\ c.details.updated = Len(c.events)

IsFailed(call) == ~call.ok

\* the error entry that a failed create, update or delete request leaves
Names(err, call) ==
    StartsWith(err, (IF call.op = "delete" THEN <<"Delete ">> ELSE <<"Event ">>)
                    \o call.id \o <<": ">>)

\* C7: once the listing has succeeded, the failure of single create, update
\* or delete calls neither stops the pass nor makes it throw: every
\* canonical event still gets its one create or update, every stale listed
\* event its one delete, the counts are those of the calls that succeeded,
\* and the errors are one entry per failed call, in order, each naming the
\* event id of its call.
C7_FailuresIsolated ==
    \A p \in Procs :
        LET c == ctx[p]
            C == EventIds(c.events)
            Listed == {c.existingEvents[j].key : j \in DOMAIN c.existingEvents}
            failed == SelectSeq(c.calls, IsFailed)
        IN (PassDone(c) /\ ListOk(c, c.svc)) =>
             /\ c.outcome = "returned"
             /\ \A id \in C \cup Listed \cup CalledIds(c) :
                  /\ Cardinality(CallsFor(c, c.svc, {"create", "update"}, id))
                       = IF id \in C THEN 1 ELSE 0
                  /\ Cardinality(CallsFor(c, c.svc, {"delete"}, id))
                       = IF id \in Listed \ C THEN 1 ELSE 0
             /\ c.details.created = Cardinality(Succeeded(c, c.svc, "create"))
             /\ c.details.updated = Cardinality(Succeeded(c, c.svc, "update"))
             /\ c.details.deleted = Cardinality(Succeeded(c, c.svc, "delete"))
             /\ Len(c.details.errors) = Len(failed)
             /\ \A k \in DOMAIN failed : Names(c.details.errors[k], failed[k])

\* C7 witness: a pass has returned in which two calls failed and a later
\* call succeeded
C7_Witness ==
    \E p \in Procs :
        LET c == ctx[p] IN
        /\ PassDone(c) /\ ListOk(c, c.svc)
        /\ Len(c.details.errors) = 2
        /\ \E k, l \in DOMAIN c.calls :
             /\ k < l
             /\ ~c.calls[k].ok /\ c.calls[k].op \in Mutations
             /\ c.calls[l].ok /\ c.calls[l].op \in Mutations

\* C8 as stated: an update overwrites every mirrored field of the remote
\* event with the value derived from the canonical event, an empty location
\* included: after a successful update the remote event is what a create
\* from the same canonical event stores; for both adapters.
C8_FullOverwriteAsStated ==
    \A p \in Procs :
        LET c == ctx[p]
            n == Len(c.calls)
        IN (c.handler = "syncToCalendar" /\ n > 0
              /\ c.calls[n].op = "update" /\ c.calls[n].ok) =>
             \A i \in DOMAIN c.events :
                c.events[i].id = c.calls[n].id =>
                  \E e \in remote[c.svc] :
                     /\ e.id = MapGet(c.existingEvents, c.calls[n].id).id
                     /\ e = Created(e.id, toRemoteEvent(c.svc, c.events[i]))

\* ===================================================================
\* The services' passes inside performSync, under Spec
\* ===================================================================
Other(svc) == IF svc = "google" THEN "outlook" ELSE "google"

\* performSync is past the blocks of both services
PassesOver(c) ==
    /\ c.handler \in {"TRIGGER_SYNC", "INTRANET_VISITED"}
    /\ c.svc # Null
    /\ c.pc \notin PassLabels

\* the listing request of svc failed in this invocation
ListingFailed(c, svc) ==
    \E k \in DOMAIN c.calls :
        c.calls[k].svc = svc /\ c.calls[k].op = "list" /\ ~c.calls[k].ok

\* C9: when the listing of existing remote events fails for a service, the
\* invocation sends no create, update or delete to that service, reports the
\* failure among the result's errors under that service's prefix, and still
\* runs the other enabled service's pass on the same canonical events (it
\* lists that service's events, unless that pass throws before its listing
\* and is reported as failed), whose counts make up the result's counts.
C9_ListingFailureContained ==
    \A p \in Procs : \A svc \in Services :
        LET c == ctx[p]
            other == Other(svc)
        IN ListingFailed(c, svc) =>
             /\ \A k \in DOMAIN c.calls :
                  c.calls[k].svc = svc => c.calls[k].op \notin Mutations
             /\ (c.svc # svc \/ c.pc \notin PassLabels) =>
                  \E k \in DOMAIN c.result.errors :
                     StartsWith(c.result.errors[k], ServicePrefix(svc))
             /\ (PassesOver(c) /\ ServiceOn(c.settings, other)) =>
                  /\ \/ \E k \in DOMAIN c.calls :
                           c.calls[k].svc = other /\ c.calls[k].op = "list"
                     \/ \E k \in DOMAIN c.result.errors :
                           StartsWith(c.result.errors[k], ServiceFailed(other))
                  /\ ListOk(c, other) =>
                       \A id \in EventIds(c.events) :
                          Cardinality(CallsFor(c, other, {"create", "update"}, id)) = 1
                  /\ c.result.eventsCreated = Cardinality(Succeeded(c, other, "create"))
                  /\ c.result.eventsUpdated = Cardinality(Succeeded(c, other, "update"))
                  /\ c.result.eventsDeleted = Cardinality(Succeeded(c, other, "delete"))

\* C9 witness: the Google listing failed and the Outlook pass of the same
\* invocation created an event
C9_Witness ==
    \E p \in Procs :
        LET c == ctx[p] IN
        /\ PassesOver(c)
        /\ ListingFailed(c, "google")
        /\ Succeeded(c, "outlook", "create") # {}
        /\ c.result.eventsCreated >= 1

\* ===================================================================
\* Error reporting of performSync under Spec
\* ===================================================================
\* the requests of kind op the invocation sent to svc that failed
FailedCalls(c, svc) ==
    {k \in DOMAIN c.calls : c.calls[k].svc = svc /\ ~c.calls[k].ok}

\* every fetch and reconciliation step of the invocation succeeded and only
\* its notification call failed
OnlyNotificationFailed(c) ==
    /\ c.pc = "done"
    /\ c.tookGuard
    /\ FailedCalls(c, "notification") # {}
    /\ \A k \in DOMAIN c.calls : c.calls[k].svc # "notification" => c.calls[k].ok
    /\ \A k \in DOMAIN c.result.errors : c.result.errors[k] = MsgNotification

\* C11 as stated: when every fetch and reconciliation step succeeded and only
\* the notification call fails, performSync still returns success = true with
\* an empty error list, and the persisted lastError stays null.
C11_NotificationFailureHarmless ==
    \A p \in Procs :
        OnlyNotificationFailed(ctx[p]) =>
            /\ ctx[p].outcome = "returned"
            /\ ctx[p].result.success
            /\ ctx[p].result.errors = <<>>
            /\ storage.status.lastError = NullMsg

\* the invocation ran past the guard and resolved with a result, and no
\* other message has arrived
ResolvedAlone(p) ==
    /\ ctx[p].pc = "done"
    /\ ctx[p].tookGuard
    /\ ctx[p].outcome = "returned"
    /\ \A q \in Procs \ {p} : ctx[q].pc = "idle"

\* C12 as stated: after a performSync invocation that did not reject, the
\* persisted lastError is the most recent error string of the result when the
\* result has at least one error, and null only when it has none.
C12_LastErrorIsMostRecent ==
    \A p \in Procs :
        ResolvedAlone(p) =>
            LET errors == ctx[p].result.errors IN
            storage.status.lastError =
                IF errors = <<>> THEN NullMsg ELSE errors[Len(errors)]

\* the message the request wrappers throw for a response with status 401
ReconnectRequired(svc) ==
    IF svc = "google"
    THEN <<"Authentication expired. Please reconnect Google Calendar.">>
    ELSE <<"Authentication expired. Please reconnect Outlook Calendar.">>

\* the first token of the message they throw for any other failed response
GenericApiError(svc) == IF svc = "google" THEN "Google API error: " ELSE "Graph API error: "

\* what the loops of the pass put in front of the message of a failed request
RequestPrefix(call) ==
    IF call.op = "list" THEN <<>>
    ELSE IF call.op = "delete" THEN <<"Delete ">> \o call.id \o <<": ">>
    ELSE <<"Event ">> \o call.id \o <<": ">>

\* the errors the invocation reports for svc so far, without the prefix
\* performSync adds: those its pass has collected while it runs, those of the
\* result afterwards
ReportedFor(c, svc) ==
    IF c.svc = svc /\ c.pc \in PassLabels
    THEN {c.details.errors[k] : k \in DOMAIN c.details.errors}
    ELSE {SubSeq(c.result.errors[k], 2, Len(c.result.errors[k])) :
            k \in {n \in DOMAIN c.result.errors :
                      StartsWith(c.result.errors[n], ServicePrefix(svc))}}

Unauthenticated(c) ==
    \E k \in DOMAIN c.calls :
        c.calls[k].svc = "intranet" /\ c.calls[k].op = "auth" /\ ~c.calls[k].ok

\* C14 as stated: when the authentication check reports unauthenticated, the
\* invocation ends with a result carrying the not-authenticated message, and
\* it sends no fetch and no remote calendar request, writes no cache and
\* leaves the last-sync timestamp and date alone.
C14_UnauthenticatedEndsWithMessage ==
    \A p \in Procs :
        LET c == ctx[p] IN
        Unauthenticated(c) =>
            /\ \A k \in DOMAIN c.calls :
                  c.calls[k].op # "fetch" /\ c.calls[k].svc \notin Services
            /\ (\A q \in Procs \ {p} : ctx[q].pc = "idle") =>
                  /\ storage.cachedEvents = NoCache
                  /\ storage.settings.lastSyncTimestamp = DEFAULT_SETTINGS.lastSyncTimestamp
                  /\ storage.settings.lastSyncDate = DEFAULT_SETTINGS.lastSyncDate
                  /\ storage.status.lastSync = DefaultStatus.lastSync
            /\ c.pc = "done" =>
                  /\ c.outcome = "returned"
                  /\ \E n \in DOMAIN c.result.errors : c.result.errors[n] = MsgNotAuthenticated

\* ===================================================================
\* JavaScript strings and dates.  A string is a sequence of UTF-16 code
\* units, as String.prototype.length, substring and split see it.
\* ===================================================================
Char(s, i) == SubSeq(s, i, i)

RECURSIVE Repeat(_, _)
Repeat(s, n) ==
    IF n <= 0 THEN ""
    ELSE IF n = 1 THEN s
    ELSE LET half == Repeat(s, n \div 2)
         IN half \o half \o (IF n % 2 = 1 THEN s ELSE "")

\* Array.prototype.join
RECURSIVE Join(_, _)
Join(parts, sep) ==
    IF parts = <<>> THEN ""
    ELSE IF Len(parts) = 1 THEN parts[1]
    ELSE LET m == Len(parts) \div 2
         IN Join(SubSeq(parts, 1, m), sep) \o sep \o Join(SubSeq(parts, m + 1, Len(parts)), sep)

\* String.prototype.split with a non-empty separator
Split(s, sep) ==
    LET n == Len(sep)
        \* a hit inside an earlier hit is not a separator
        Separators(Hits) == {i \in Hits : \A j \in Hits : j < i => j + n <= i}
        Pieces(Seps, Starts) ==
            [k \in 1..Cardinality(Starts) |->
                LET a == CHOOSE b \in Starts : Cardinality({c \in Starts : c < b}) + 1 = k
                    after == {i \in Seps : i >= a}
                IN SubSeq(s, a, IF after = {} THEN Len(s)
                                ELSE (CHOOSE i \in after : \A j \in after : i <= j) - 1)]
        Cut(Seps) == Pieces(Seps, {1} \cup {i + n : i \in Seps})
    IN Cut(Separators({i \in 1..(Len(s) - n + 1) : SubSeq(s, i, i + n - 1) = sep}))

\* String.prototype.replace(/ch/g, by) for a one-character pattern
RECURSIVE ReplaceAll(_, _, _)
ReplaceAll(s, ch, by) ==
    IF s = "" THEN ""
    ELSE IF Len(s) = 1 THEN (IF s = ch THEN by ELSE s)
    ELSE LET m == Len(s) \div 2
         IN ReplaceAll(SubSeq(s, 1, m), ch, by) \o ReplaceAll(SubSeq(s, m + 1, Len(s)), ch, by)

\* the characters of the inputs that take two and three octets in UTF-8
TwoOctets == {"É", "é"}
ThreeOctets == {"€"}

\* the length of the UTF-8 encoding of s
Octets(s) ==
    Len(s) + Cardinality({i \in 1..Len(s) : Char(s, i) \in TwoOctets})
           + 2 * Cardinality({i \in 1..Len(s) : Char(s, i) \in ThreeOctets})

Digits == <<"0", "1", "2", "3", "4", "5", "6", "7", "8", "9">>
IsDigit(ch) == \E k \in 1..10 : Digits[k] = ch
DigitValue(ch) == (CHOOSE k \in 1..10 : Digits[k] = ch) - 1

\* Number.prototype.toString of a natural number
RECURSIVE NumStr(_)
NumStr(n) == IF n < 10 THEN Digits[n + 1] ELSE NumStr(n \div 10) \o Digits[(n % 10) + 1]

\* padStart(2, '0')
pad(n) == IF n < 10 THEN "0" \o NumStr(n) ELSE NumStr(n)

\* Number(s) for the strings a date field can be: a run of decimal digits is
\* its value, the empty string is 0, anything else (undefined included) is NaN
NaN == -1
RECURSIVE DigitsValue(_, _)
DigitsValue(s, acc) ==
    IF s = "" THEN acc ELSE DigitsValue(SubSeq(s, 2, Len(s)), 10 * acc + DigitValue(Char(s, 1)))
Number(s) ==
    IF \A i \in 1..Len(s) : IsDigit(Char(s, i)) THEN DigitsValue(s, 0) ELSE NaN

\* ---------------------------------------------------------------- Date
\* a Date object by its local-time fields (month from 1); an invalid Date
\* has the time value NaN
DateOf(y, mo, d, h, mi, s) ==
    [type |-> "Date", valid |-> TRUE, year |-> y, month |-> mo, day |-> d,
     hours |-> h, minutes |-> mi, seconds |-> s]
InvalidDate ==
    [type |-> "Date", valid |-> FALSE, year |-> 0, month |-> 0, day |-> 0,
     hours |-> 0, minutes |-> 0, seconds |-> 0]

IsLeap(y) == (y % 4 = 0 /\ y % 100 # 0) \/ y % 400 = 0
DaysIn(y, mo) ==
    IF mo = 2 THEN (IF IsLeap(y) THEN 29 ELSE 28)
    ELSE IF mo \in {4, 6, 9, 11} THEN 30 ELSE 31

\* the day of month brought into its month, months counted from 1
RECURSIVE NormDay(_, _, _)
NormDay(y, mo, d) ==
    IF d < 1
    THEN LET py == IF mo = 1 THEN y - 1 ELSE y
             pm == IF mo = 1 THEN 12 ELSE mo - 1
         IN NormDay(py, pm, d + DaysIn(py, pm))
    ELSE IF d > DaysIn(y, mo)
    THEN NormDay(IF mo = 12 THEN y + 1 ELSE y, IF mo = 12 THEN 1 ELSE mo + 1, d - DaysIn(y, mo))
    ELSE <<y, mo, d>>

\* new Date(year, month - 1, day, hours, minutes, seconds): NaN in any field
\* gives an invalid Date, fields out of range carry into the next unit, and a
\* year from 0 to 99 means 1900 + year
MakeDate(year, month, day, hours, minutes, seconds) ==
    IF NaN \in {year, month, day, hours, minutes, seconds}
    THEN InvalidDate
    ELSE LET y0 == IF year \in 0..99 THEN 1900 + year ELSE year
             mi == minutes + (seconds \div 60)
             h == hours + (mi \div 60)
             y1 == y0 + ((month - 1) \div 12)
             mo1 == ((month - 1) % 12) + 1
             ymd == NormDay(y1, mo1, day + (h \div 24))
         IN DateOf(ymd[1], ymd[2], ymd[3], h % 24, mi % 60, seconds % 60)

\* parseEpitechDate: 'YYYY-MM-DD HH:MM:SS' read as local time
parseEpitechDate(dateStr) ==
    LET Fields(list) == [k \in 1..3 |-> IF k <= Len(list) THEN Number(list[k]) ELSE NaN]
        Built(dp, tp) == MakeDate(dp[1], dp[2], dp[3], tp[1], tp[2], tp[3])
        Parsed(parts) ==
            Built(Fields(Split(parts[1], "-")),
                  Fields(Split(IF Len(parts) >= 2 /\ parts[2] # "" THEN parts[2]
                               ELSE "00:00:00", ":")))
    IN Parsed(Split(dateStr, " "))

\* Date.parse of the strings the inputs hold: 'YYYY-MM-DD HH:MM:SS' with every
\* field in range is read as local time; every other string gives NaN
NewDate(text) ==
    LET shaped == /\ Len(text) = 19
                  /\ \A i \in 1..19 :
                        IF i \in {5, 8} THEN Char(text, i) = "-"
                        ELSE IF i = 11 THEN Char(text, i) = " "
                        ELSE IF i \in {14, 17} THEN Char(text, i) = ":"
                        ELSE IsDigit(Char(text, i))
        year == Number(SubSeq(text, 1, 4))
        month == Number(SubSeq(text, 6, 7))
        day == Number(SubSeq(text, 9, 10))
        hours == Number(SubSeq(text, 12, 13))
        minutes == Number(SubSeq(text, 15, 16))
        seconds == Number(SubSeq(text, 18, 19))
    IN IF shaped /\ month \in 1..12 /\ day \in 1..DaysIn(year, month)
          /\ hours <= 23 /\ minutes <= 59 /\ seconds <= 59
       THEN DateOf(year, month, day, hours, minutes, seconds)
       ELSE InvalidDate

\* the other values a date field can hold
NullValue == [type |-> "null"]
StringValue(text) == [type |-> "string", text |-> text]
PlainObject == [type |-> "object"]

\* the outcome of a call that returns a Date or throws
DateReturned(d) == [threw |-> FALSE, error |-> "", date |-> d]
DateThrown(msg) == [threw |-> TRUE, error |-> msg, date |-> InvalidDate]

\* ensureDate
ensureDate(value) ==
    IF value.type \in {"null", "undefined"}
    THEN DateThrown("Date value is null or undefined")
    ELSE IF value.type = "Date"
    THEN IF ~value.valid THEN DateThrown("Invalid Date object: Invalid Date")
         ELSE DateReturned(value)
    ELSE IF value.type = "string"
    THEN LET FromString(parsed, epitechParsed) ==
                 IF parsed.valid THEN DateReturned(parsed)
                 ELSE IF epitechParsed.valid THEN DateReturned(epitechParsed)
                 ELSE DateThrown("Cannot parse date string: " \o value.text)
         IN FromString(NewDate(value.text), parseEpitechDate(value.text))
    ELSE DateThrown("Cannot convert object to Date: {}")

\* the outcome of a call that returns a string or throws
TextReturned(text) == [threw |-> FALSE, error |-> "", text |-> text]
TextThrown(msg) == [threw |-> TRUE, error |-> msg, text |-> ""]

\* toIcsDateTime: YYYYMMDDTHHMMSS of the local time
toIcsDateTime(value) ==
    LET Formatted(d) ==
            Join([k \in 1..7 |-> IF k = 1 THEN NumStr(d.year)
                                 ELSE IF k = 4 THEN "T"
                                 ELSE pad(<<0, d.month, d.day, 0, d.hours, d.minutes,
                                            d.seconds>>[k])], "")
        Outcome(r) == IF r.threw THEN TextThrown(r.error)
                      ELSE TextReturned(Formatted(r.date))
    IN Outcome(ensureDate(value))

\* getTimezoneVtimezone
getTimezoneVtimezone ==
    Join(<<"BEGIN:VTIMEZONE", "TZID:Europe/Paris", "BEGIN:DAYLIGHT",
           "TZOFFSETFROM:+0100", "TZOFFSETTO:+0200", "TZNAME:CEST",
           "DTSTART:19700329T020000", "RRULE:FREQ=YEARLY;BYMONTH=3;BYDAY=-1SU",
           "END:DAYLIGHT", "BEGIN:STANDARD", "TZOFFSETFROM:+0200",
           "TZOFFSETTO:+0100", "TZNAME:CET", "DTSTART:19701025T030000",
           "RRULE:FREQ=YEARLY;BYMONTH=10;BYDAY=-1SU", "END:STANDARD",
           "END:VTIMEZONE">>, "\r\n")

\* ===================================================================
\* The ICS generator
\* ===================================================================
\* escapeIcsText with the backslash replaced last
escapeIcsText_BackslashLast(text) ==
    ReplaceAll(ReplaceAll(ReplaceAll(ReplaceAll(text, ";", "\\;"), ",", "\\,"),
                          "\n", "\\n"),
               "\\", "\\\\")

\* escapeIcsText: four replacements, the backslash first
escapeIcsText(text) ==
    ReplaceAll(ReplaceAll(ReplaceAll(ReplaceAll(text, "\\", "\\\\"), ";", "\\;"),
                          ",", "\\,"),
               "\n", "\\n")

maxLength == 75

\* the continuation lines of foldLine's loop: a space and the next
\* maxLength - 1 code units
RECURSIVE Continuations(_)
Continuations(remaining) ==
    IF Len(remaining) = 0 THEN <<>>
    ELSE LET n == IF Len(remaining) < maxLength - 1 THEN Len(remaining) ELSE maxLength - 1
         IN <<" " \o SubSeq(remaining, 1, n)>>
               \o Continuations(SubSeq(remaining, n + 1, Len(remaining)))

\* foldLine: `line.length` and substring count UTF-16 code units
foldLine(line) ==
    IF Len(line) <= maxLength THEN line
    ELSE Join(<<SubSeq(line, 1, maxLength)>>
                 \o Continuations(SubSeq(line, maxLength + 1, Len(line))),
              "\r\n")

\* generateUid
generateUid(event) == event.id \o "@epitech.eu"

\* generateVEvent, `new Date()` giving now: the lines of one VEVENT, each
\* folded, joined by CRLF; an exception of toIcsDateTime leaves the function
generateVEvent(event, now) ==
    LET Lines(stamp, start, end) ==
            <<"BEGIN:VEVENT",
              "UID:" \o generateUid(event),
              "DTSTAMP:" \o stamp,
              "DTSTART;TZID=Europe/Paris:" \o start,
              "DTEND;TZID=Europe/Paris:" \o end,
              "SUMMARY:" \o escapeIcsText(event.title)>>
            \o (IF event.description # ""
                THEN <<"DESCRIPTION:" \o escapeIcsText(event.description)>> ELSE <<>>)
            \o (IF event.location # ""
                THEN <<"LOCATION:" \o escapeIcsText(event.location)>> ELSE <<>>)
            \o <<"CATEGORIES:EPITECH," \o escapeIcsText(event.module.title),
                 "STATUS:" \o (IF event.isRegistered THEN "CONFIRMED" ELSE "TENTATIVE"),
                 "TRANSP:OPAQUE",
                 "SEQUENCE:0",
                 "END:VEVENT">>
        Folded(lines) == Join([k \in DOMAIN lines |-> foldLine(lines[k])], "\r\n")
        VEvent(stamp, start, end) ==
            IF stamp.threw THEN stamp
            ELSE IF start.threw THEN start
            ELSE IF end.threw THEN end
            ELSE TextReturned(Folded(Lines(stamp.text, start.text, end.text)))
    IN VEvent(toIcsDateTime(now), toIcsDateTime(event.startDate),
              toIcsDateTime(event.endDate))

\* the loop of generateIcsContent leaving out every event whose VEVENT
\* cannot be generated
RECURSIVE VEvents_SkipFailed(_, _)
VEvents_SkipFailed(events, now) ==
    IF events = <<>> THEN [threw |-> FALSE, error |-> "", lines |-> <<>>]
    ELSE LET rest == VEvents_SkipFailed(Tail(events), now)
             With(first) == IF first.threw THEN rest
                            ELSE [rest EXCEPT !.lines = <<first.text>> \o @]
         IN With(generateVEvent(Head(events), now))

\* the VEVENTs of the loop of generateIcsContent, or the first exception
RECURSIVE VEvents(_, _)
VEvents(events, now) ==
    IF events = <<>> THEN [threw |-> FALSE, error |-> "", lines |-> <<>>]
    ELSE LET rest == VEvents(Tail(events), now)
             With(first) ==
                 IF first.threw THEN [threw |-> TRUE, error |-> first.error, lines |-> <<>>]
                 ELSE IF rest.threw THEN rest
                 ELSE [rest EXCEPT !.lines = <<first.text>> \o @]
         IN With(generateVEvent(Head(events), now))

\* generateIcsContent called when the clock reads now; the call is
\* synchronous, and every `new Date()` of it reads the same second
generateIcsContent(events, now) ==
    LET Document(vevents) ==
            IF vevents.threw THEN TextThrown(vevents.error)
            ELSE TextReturned(Join(<<"BEGIN:VCALENDAR",
                                     "VERSION:2.0",
                                     "PRODID:-//Epitech Calendar Sync//EN",
                                     "CALSCALE:GREGORIAN",
                                     "METHOD:PUBLISH",
                                     "X-WR-CALNAME:Epitech Calendar",
                                     "X-WR-TIMEZONE:Europe/Paris",
                                     getTimezoneVtimezone>>
                                   \o vevents.lines
                                   \o <<"END:VCALENDAR">>, "\r\n"))
    IN Document(VEvents(events, now))

\* ------------------------------------------------ the generator's inputs
MaxCore == 2
MaxOthers == 1
MaxClock == 2
MaxCalls == 2

\* characters of a title: a letter, the four characters escapeIcsText
\* replaces, a space, and a letter of two octets
IcsAlphabet == {"a", "\\", ";", ",", "\n", " ", "É"}

\* the strings of at most n characters
RECURSIVE Texts(_)
Texts(n) ==
    IF n = 0 THEN {""}
    ELSE Texts(n - 1) \cup {t \o ch : t \in Texts(n - 1), ch \in IcsAlphabet}

\* the letters put before them: none, and what brings the SUMMARY line to
\* the first and to the second fold
PadLengths == {0, 66, 67, 140}
Titles == {Repeat("a", n) \o core : n \in PadLengths, core \in Texts(MaxCore)}

\* the values of a date field: a Date, an invalid Date, null, an Epitech
\* string, one with fields out of range, one that is no date, a plain object
DateValues ==
    {DateOf(2024, 3, 1, 9, 0, 0), InvalidDate, NullValue,
     StringValue("2024-03-01 10:00:00"), StringValue("2024-13-45 99:99:99"),
     StringValue("garbage"), PlainObject}

IcsEvent(codeacti, title, location, start, end) ==
    [id |-> "epitech-" \o codeacti \o "-E1",
     title |-> title,
     description |-> "Module: " \o codeacti,
     location |-> location,
     module |-> [title |-> codeacti],
     isRegistered |-> TRUE,
     startDate |-> start,
     endDate |-> end]

PlainEvent ==
    IcsEvent("B", "EPITECH - B", "", DateOf(2024, 3, 2, 14, 0, 0), DateOf(2024, 3, 2, 15, 0, 0))

\* one list per title, and each pair of date values in one event among at
\* most MaxOthers plain ones
IcsInputs ==
    {<<IcsEvent("A", title, "KB2 Pasteur", DateOf(2024, 3, 1, 9, 0, 0), DateOf(2024, 3, 1, 10, 0, 0))>> :
        title \in Titles}
    \cup {[k \in 1..ba[1] |-> PlainEvent]
             \o <<IcsEvent("A", "EPITECH - A", "KB2 Pasteur", start, end)>>
             \o [k \in 1..ba[2] |-> PlainEvent] :
            ba \in {x \in (0..MaxOthers) \X (0..MaxOthers) : x[1] + x[2] <= MaxOthers},
            start \in DateValues, end \in DateValues}

\* the clock reading k: seconds after noon
Now(k) == DateOf(2024, 3, 1, 12, 0, k)

\* the state outside `func` when only the generator runs
Quiet ==
    /\ isSyncing = FALSE
    /\ storage = [settings |-> DEFAULT_SETTINGS, status |-> DefaultStatus, cachedEvents |-> NoCache]
    /\ remote = [svc \in Services |-> {}]
    /\ today = MaxDay
    /\ ctx = [p \in Procs |-> IdleCtx]
    /\ faults = 0
    /\ lastPass = [svc \in Services |-> NoPass]
    /\ pages = NoPages

InitIcs ==
    /\ Quiet
    /\ \E events \in IcsInputs :
          func = [fn |-> "generateIcsContent", events |-> events, clock |-> 0, docs |-> <<>>]

\* a second passes
ClockTick ==
    /\ func.fn = "generateIcsContent"
    /\ func.clock < MaxClock
    /\ func' = [func EXCEPT !.clock = @ + 1]
    /\ UNCHANGED <<isSyncing, storage, remote, today, ctx, faults, lastPass, pages>>

\* generateIcsContent(events) is called, for at most `most` calls
GenerateIcs(most) ==
    /\ func.fn = "generateIcsContent"
    /\ Len(func.docs) < most
    /\ func' = [func EXCEPT !.docs = Append(@, generateIcsContent(func.events, Now(func.clock)))]
    /\ UNCHANGED <<isSyncing, storage, remote, today, ctx, faults, lastPass, pages>>

\* one func on each input
NextIcs == GenerateIcs(1)
SpecIcs == InitIcs /\ [][NextIcs]_vars

\* the inputs of the repeated calls: lists of one event, its title ending
\* with each character in turn
InitIcsTwice ==
    /\ Quiet
    /\ \E n \in 0..(MaxOthers + 1), title \in IcsAlphabet :
          func = [fn |-> "generateIcsContent",
                  events |-> [k \in 1..n |-> [PlainEvent EXCEPT !.title = @ \o title]],
                  clock |-> 0, docs |-> <<>>]

\* calls of generateIcsContent on one list while time passes
NextIcsTwice == ClockTick \/ GenerateIcs(MaxCalls)
SpecIcsTwice == InitIcsTwice /\ [][NextIcsTwice]_vars

\* the physical lines of the last document returned
LastDoc == func.docs[Len(func.docs)]
PhysicalLines == Split(LastDoc.text, "\r\n")

\* C16 as stated: every physical line of the document generateIcsContent
\* returns, the text between two CRLF, is at most 75 octets long in UTF-8,
\* also when a text field holds characters of more than one octet.
C16_LinesWithin75Octets ==
    (func.fn = "generateIcsContent" /\ func.docs # <<>> /\ ~LastDoc.threw) =>
        LET lines == PhysicalLines
        IN \A k \in DOMAIN lines : Octets(lines[k]) <= 75

\* un-folding: each line that starts with a space is joined onto the line
\* before it, with that space removed
RECURSIVE Unfold(_)
Unfold(lines) ==
    IF Len(lines) <= 1 THEN lines
    ELSE LET m == Len(lines) \div 2
             left == Unfold(SubSeq(lines, 1, m))
             right == Unfold(SubSeq(lines, m + 1, Len(lines)))
         IN IF Len(right[1]) >= 1 /\ Char(right[1], 1) = " "
            THEN SubSeq(left, 1, Len(left) - 1)
                    \o <<left[Len(left)] \o SubSeq(right[1], 2, Len(right[1]))>>
                    \o Tail(right)
            ELSE left \o right

\* the escaped form of a text: each backslash, semicolon and comma preceded
\* by a backslash, each newline written as backslash and n, in one pass over
\* the characters of the text
Escaped(text) ==
    Join([i \in 1..Len(text) |->
            LET ch == Char(text, i) IN
            IF ch \in {"\\", ";", ","} THEN "\\" \o ch
            ELSE IF ch = "\n" THEN "\\n"
            ELSE ch],
         "")

LogicalLines == Unfold(PhysicalLines)

\* generateIcsContent([e]) returned a document
EncodedOne ==
    /\ func.fn = "generateIcsContent"
    /\ func.docs # <<>>
    /\ Len(func.events) = 1
    /\ ~LastDoc.threw

\* C17: splitting generateIcsContent([e]) on CRLF and un-folding gives one
\* SUMMARY line, equal to 'SUMMARY:' followed by the escaped form of e.title,
\* in which no inserted backslash is escaped again.
C17_SummaryRoundTrip ==
    EncodedOne =>
        LET lines == LogicalLines
            summaries == {k \in DOMAIN lines : StartsWith(lines[k], "SUMMARY:")}
        IN /\ Cardinality(summaries) = 1
           /\ \A k \in summaries :
                 lines[k] = "SUMMARY:" \o Escaped(func.events[1].title)

\* C17 witness: the title holds a backslash and a semicolon and its SUMMARY
\* line was folded
C17_Witness ==
    /\ EncodedOne
    /\ \E i, j \in 1..Len(func.events[1].title) :
          Char(func.events[1].title, i) = "\\" /\ Char(func.events[1].title, j) = ";"
    /\ Len(func.events[1].title) > maxLength
    /\ Len(PhysicalLines) > Len(LogicalLines)

\* a date value ensureDate cannot turn into a Date
Unparseable(value) ==
    CASE value.type = "Date" -> ~value.valid
      [] value.type = "string" ->
            ~NewDate(value.text).valid /\ ~parseEpitechDate(value.text).valid
      [] OTHER -> TRUE

HoldsUnparseable(events) ==
    \E k \in DOMAIN events :
        Unparseable(events[k].startDate) \/ Unparseable(events[k].endDate)

\* C18: when an event of the list holds an unparseable start or end date,
\* generateIcsContent throws and returns no document, neither one of the
\* other events alone nor one with a malformed date line.
C18_BadDateFailsWholeCall ==
    (func.fn = "generateIcsContent" /\ func.docs # <<>> /\ HoldsUnparseable(func.events)) =>
        /\ LastDoc.threw
        /\ LastDoc.text = ""

\* C18 witness: the call threw on a list whose first event has valid dates
\* and whose second event has an end date that is no date
C18_Witness ==
    /\ func.fn = "generateIcsContent"
    /\ func.docs # <<>>
    /\ Len(func.events) >= 2
    /\ ~HoldsUnparseable(<<func.events[1]>>)
    /\ Unparseable(func.events[2].endDate)
    /\ ~Unparseable(func.events[2].startDate)
    /\ LastDoc.threw

\* C19 as stated: two calls of generateIcsContent with the same event list,
\* made at different times, return identical documents.
C19_SameDocumentAtAnyTime ==
    func.fn = "generateIcsContent" =>
        \A i, j \in DOMAIN func.docs : func.docs[i] = func.docs[j]

\* ===================================================================
\* EXPORT_ICS: handleExportIcs -> exportToIcs
\* ===================================================================
MsgExportNotAuthenticated == <<"Not authenticated to Epitech intranet">>

\* a canonical event as the generator reads it from the cache: the texts as
\* strings, the dates as the Date objects getCachedEvents rebuilds
AsIcsEvent(event) ==
    [id |-> Join(event.id, ""),
     title |-> Join(event.title, ""),
     description |-> Join(event.description, ""),
     location |-> event.location,
     module |-> [title |-> event.id[2]],
     isRegistered |-> TRUE,
     startDate |-> DateOf(2024, 3, 1, event.startDate, 0, 0),
     endDate |-> DateOf(2024, 3, 1, event.endDate, 0, 0)]

\* `return generateIcsContent(events)` on day d
ExportReturn(c, events, d) ==
    LET Settled(doc) == IF doc.threw THEN Rejected(c, <<doc.error>>)
                        ELSE Returned([c EXCEPT !.document = doc.text])
    IN Settled(generateIcsContent([k \in DOMAIN events |-> AsIcsEvent(events[k])],
                                  DateOf(2024, 3, d, 12, 0, 0)))

\* EXPORT_ICS arrives: exportToIcs starts `await getCachedEvents()`
ExportIcs(p) ==
    /\ Arrives(p)
    /\ Ok(p, [ctx[p] EXCEPT !.handler = "EXPORT_ICS", !.invoked = TRUE, !.pc = "export_cached"],
          storage, remote)

\* getCachedEvents resolved: a non-empty cached list is encoded; with no
\* cache or an empty list `await checkAuthentication()` starts
ExportCached(p) ==
    /\ ctx[p].pc = "export_cached"
    /\ \/ Ok(p, IF storage.cachedEvents.present /\ storage.cachedEvents.events # <<>>
                THEN ExportReturn(ctx[p], storage.cachedEvents.events, today)
                ELSE [ctx[p] EXCEPT !.pc = "export_auth"],
             storage, remote)
       \/ Fault(p, Rejected(ctx[p], MsgStorage))

\* checkAuthentication resolved; unauthenticated throws out of exportToIcs
ExportAuth(p) ==
    /\ ctx[p].pc = "export_auth"
    /\ \E authenticated \in BOOLEAN :
         LET c == [ctx[p] EXCEPT !.calls = Log(ctx[p], "intranet", "auth", NullMsg, authenticated)]
         IN Ok(p, IF authenticated THEN [c EXCEPT !.pc = "export_fetch_settings"]
                  ELSE Rejected(c, MsgExportNotAuthenticated),
               storage, remote)

\* getEventsForSync: the settings read, then fetchPlanningEvents starts
ExportFetchSettings(p) ==
    /\ ctx[p].pc = "export_fetch_settings"
    /\ \/ Ok(p, [ctx[p] EXCEPT !.pc = "export_fetch"], storage, remote)
       \/ Fault(p, Rejected(ctx[p], MsgStorage))

\* getEventsForSync: the planning request resolved; then
\* `await cacheEvents(events)` starts
ExportFetch(p, feed) ==
    /\ ctx[p].pc = "export_fetch"
    /\ \/ \E events \in feed :
            Ok(p, [ctx[p] EXCEPT !.events = events,
                                 !.calls = Log(ctx[p], "intranet", "fetch", NullMsg, TRUE),
                                 !.pc = "export_cache"],
               storage, remote)
       \/ \E msg \in {MsgFetchAuth, MsgFetchHttp} :
            Fault(p, Rejected([ctx[p] EXCEPT !.calls = Log(ctx[p], "intranet", "fetch", NullMsg, FALSE)],
                              msg))

\* cacheEvents: the write; then the fetched list is encoded
ExportCache(p) ==
    /\ ctx[p].pc = "export_cache"
    /\ \/ Ok(p, ExportReturn(ctx[p], ctx[p].events, today),
             [storage EXCEPT !.cachedEvents = [present |-> TRUE, events |-> ctx[p].events]], remote)
       \/ Fault(p, Rejected(ctx[p], MsgStorage))

\* the background when EXPORT_ICS messages arrive: the cache absent, empty
\* or holding a list of an earlier sync
InitExport ==
    /\ isSyncing = FALSE
    /\ \E cache \in {NoCache} \cup {[present |-> TRUE, events |-> l] : l \in FeedRich} :
          storage = [settings |-> DEFAULT_SETTINGS, status |-> DefaultStatus,
                     cachedEvents |-> cache]
    /\ remote = [svc \in Services |-> {}]
    /\ today = MaxDay
    /\ ctx = [p \in Procs |-> IdleCtx]
    /\ faults = MaxFaults
    /\ lastPass = [svc \in Services |-> NoPass]
    /\ func = NoCall
    /\ pages = NoPages

NextExport ==
    \E p \in Procs :
        \/ ExportIcs(p)
        \/ ExportCached(p)
        \/ ExportAuth(p)
        \/ ExportFetchSettings(p)
        \/ ExportFetch(p, FeedRich)
        \/ ExportCache(p)
        \/ Reply(p)

SpecExport == InitExport /\ [][NextExport]_vars

\* C15 as stated: exportToIcs returns the document without network side
\* effect: whether the cache is absent, empty or non-empty, it issues no
\* authentication check and no source fetch.
C15_ExportWithoutNetwork ==
    \A p \in Procs :
        ctx[p].handler = "EXPORT_ICS" =>
            \A k \in DOMAIN ctx[p].calls : ctx[p].calls[k].svc # "intranet"

\* ===================================================================
\* transformEvent: the canonical event of a raw planning record
\* ===================================================================
BoolValue(b) == [type |-> "boolean", bool |-> b]
NumberValue(n) == [type |-> "number", num |-> n]

\* ToBoolean of a value that is null or a string
Truthy(value) == value.type = "string" /\ value.text # ""

\* s holds sub
Contains(s, sub) ==
    \E i \in 1..(Len(s) - Len(sub) + 1) : SubSeq(s, i, i + Len(sub) - 1) = sub

LowerCase == "abcdefghijklmnopqrstuvwxyz"
UpperCase == "ABCDEFGHIJKLMNOPQRSTUVWXYZ"
ToUpper(s) ==
    Join([i \in 1..Len(s) |->
            IF \E k \in 1..26 : Char(LowerCase, k) = Char(s, i)
            THEN Char(UpperCase, CHOOSE k \in 1..26 : Char(LowerCase, k) = Char(s, i))
            ELSE Char(s, i)],
         "")

Whitespace == {" ", "\t", "\n", "\r"}

\* String.prototype.trim
Trim(s) ==
    LET Inked == {i \in 1..Len(s) : Char(s, i) \notin Whitespace}
    IN IF Inked = {} THEN ""
       ELSE SubSeq(s, CHOOSE i \in Inked : \A j \in Inked : i <= j,
                      CHOOSE i \in Inked : \A j \in Inked : i >= j)

ObligatoireTag == "[OBLIGATOIRE]"

\* title.replace(/\s*\[OBLIGATOIRE\]\s*/gi, ' '): each tag, in any case,
\* with the white space around it, becomes one space
RECURSIVE ReplaceTags(_)
ReplaceTags(title) ==
    LET n == Len(ObligatoireTag)
        Tags == {t \in 1..(Len(title) - n + 1) :
                    ToUpper(SubSeq(title, t, t + n - 1)) = ObligatoireTag}
    IN IF Tags = {} THEN title
       ELSE LET t == CHOOSE x \in Tags : \A y \in Tags : x <= y
                from == CHOOSE i \in 1..t :
                           /\ \A j \in i..(t - 1) : Char(title, j) \in Whitespace
                           /\ i > 1 => Char(title, i - 1) \notin Whitespace
                to == CHOOSE i \in (t + n - 1)..Len(title) :
                           /\ \A j \in (t + n)..i : Char(title, j) \in Whitespace
                           /\ i < Len(title) => Char(title, i + 1) \notin Whitespace
            IN SubSeq(title, 1, from - 1) \o " "
                  \o ReplaceTags(SubSeq(title, to + 1, Len(title)))

\* cleanActivityTitle
cleanActivityTitle(title) == Trim(ReplaceTags(title))

\* formatRoomCode
formatRoomCode(code) ==
    LET Named(building, room) == IF room # "" THEN building \o ": " \o room
                                 ELSE building
        Formatted(relevantParts) ==
            IF Len(relevantParts) = 0 THEN code
            ELSE Named(ReplaceAll(relevantParts[1], "-", " "),
                       Join([k \in 1..(Len(relevantParts) - 1) |->
                                ReplaceAll(relevantParts[k + 1], "-", " ")], " "))
        Relevant(parts) == Formatted(SubSeq(parts, 3, Len(parts)))
    IN Relevant(Split(code, "/"))

\* Date.prototype.getTime in seconds, for a valid Date, up to the constant
\* offset of the local time zone
GetTime(d) ==
    LET y == IF d.month <= 2 THEN d.year - 1 ELSE d.year
        era == y \div 400
        yoe == y - era * 400
        mp == (d.month + 9) % 12
        doy == ((153 * mp + 2) \div 5) + d.day - 1
        doe == yoe * 365 + (yoe \div 4) - (yoe \div 100) + doy
        days == era * 146097 + doe - 719468
    IN ((days * 24 + d.hours) * 60 + d.minutes) * 60 + d.seconds

\* Number.prototype.toString of an integer
IntStr(n) == IF n < 0 THEN "-" \o NumStr(-n) ELSE NumStr(n)

\* the remainder operator of JavaScript: the sign of the dividend
JsRem(a, b) == IF a >= 0 THEN a % b ELSE -((-a) % b)

\* formatDuration
formatDuration(minutes) ==
    LET hours == minutes \div 60
        mins == JsRem(minutes, 60)
    IN IF hours > 0 /\ mins > 0
       THEN IntStr(hours) \o "h" \o (IF Len(IntStr(mins)) < 2 THEN "0" ELSE "") \o IntStr(mins)
       ELSE IF hours > 0 THEN IntStr(hours) \o "h"
       ELSE IntStr(mins) \o "min"

\* the duration of a reserved slot: Math.round of the minutes between its two
\* halves, NaN when one of them is no date
SlotDuration(startDate, endDate) ==
    IF ~startDate.valid \/ ~endDate.valid THEN "NaNmin"
    ELSE formatDuration((GetTime(endDate) - GetTime(startDate) + 30) \div 60)

\* what getRealTimeSlot returns, or the TypeError of parseEpitechDate(undefined)
TimeSlot(start, end, isPersonalSlot, duration) ==
    [threw |-> FALSE, start |-> start, end |-> end,
     isPersonalSlot |-> isPersonalSlot, duration |-> duration]
SlotThrown ==
    [threw |-> TRUE, start |-> InvalidDate, end |-> InvalidDate,
     isPersonalSlot |-> "null", duration |-> NullValue]

\* is_rdv === '1' || is_rdv === true || is_rdv === 1
isRdvEvent(raw) ==
    raw.is_rdv \in {StringValue("1"), BoolValue(TRUE), NumberValue(1)}

\* getRealTimeSlot with the group reservation read before the individual one
getRealTimeSlot_GroupFirst(raw) ==
    LET slot == IF Truthy(raw.rdv_group_registered) THEN raw.rdv_group_registered
                ELSE raw.rdv_indiv_registered
        Slot(startDate, endDate) ==
            TimeSlot(startDate, endDate, "true",
                     StringValue(SlotDuration(startDate, endDate)))
        Reserved(halves) ==
            IF Len(halves) < 2 THEN SlotThrown
            ELSE Slot(parseEpitechDate(halves[1]), parseEpitechDate(halves[2]))
    IN IF isRdvEvent(raw) /\ Truthy(slot)
       THEN Reserved(Split(slot.text, "|"))
       ELSE TimeSlot(parseEpitechDate(raw.start), parseEpitechDate(raw.end),
                     IF isRdvEvent(raw) THEN "false" ELSE "null", raw.nb_hours)

\* getRealTimeSlot; isPersonalSlot is true, false or null
getRealTimeSlot(raw) ==
    LET slot == IF Truthy(raw.rdv_indiv_registered) THEN raw.rdv_indiv_registered
                ELSE raw.rdv_group_registered
        Slot(startDate, endDate) ==
            TimeSlot(startDate, endDate, "true",
                     StringValue(SlotDuration(startDate, endDate)))
        Reserved(halves) ==
            IF Len(halves) < 2 THEN SlotThrown
            ELSE Slot(parseEpitechDate(halves[1]), parseEpitechDate(halves[2]))
    IN IF isRdvEvent(raw)
       THEN IF Truthy(slot) THEN Reserved(Split(slot.text, "|"))
            ELSE TimeSlot(parseEpitechDate(raw.start), parseEpitechDate(raw.end),
                          "false", raw.nb_hours)
       ELSE TimeSlot(parseEpitechDate(raw.start), parseEpitechDate(raw.end),
                     "null", raw.nb_hours)

NotReservedMarker == "[CRÉNEAU NON RÉSERVÉ]"

\* transformEvent; a record without instructors
transformEvent(raw, prefix) ==
    LET id == "epitech-" \o raw.codeacti \o "-" \o raw.codeevent
        isRegistered == \/ raw.event_registered \in
                              {StringValue("registered"), StringValue("present"),
                               StringValue("absent")}
                        \/ raw.registered = BoolValue(TRUE)
        location == IF raw.room.type = "object" THEN formatRoomCode(raw.room.code)
                    ELSE IF Truthy(raw.instance_location) THEN raw.instance_location.text
                    ELSE ""
        descriptionParts(activityTitle, timeSlot) ==
            <<"Module: " \o raw.titlemodule, "Activity: " \o activityTitle>>
            \o (IF Truthy(timeSlot.duration)
                THEN <<"Duration: " \o timeSlot.duration.text>> ELSE <<>>)
            \o (IF timeSlot.isPersonalSlot = "true" THEN <<"Slot: Personal slot reserved">>
                ELSE IF timeSlot.isPersonalSlot = "false"
                THEN <<"Slot: NOT RESERVED - Book your slot!">>
                ELSE <<>>)
            \o <<"Registered: " \o (IF isRegistered THEN "Yes" ELSE "No"),
                 "",
                 "Intra: https://intra.epitech.eu/module/" \o raw.scolaryear \o "/"
                    \o raw.codemodule \o "/" \o raw.codeinstance \o "/" \o raw.codeacti>>
        Transformed(activityTitle, timeSlot) ==
            IF timeSlot.threw THEN [threw |-> TRUE]
            ELSE [threw |-> FALSE,
                  id |-> id,
                  title |-> IF timeSlot.isPersonalSlot = "false"
                            THEN prefix \o NotReservedMarker \o " " \o activityTitle
                            ELSE prefix \o activityTitle,
                  description |-> Join(descriptionParts(activityTitle, timeSlot), "\n"),
                  location |-> location,
                  startDate |-> timeSlot.start,
                  endDate |-> timeSlot.end,
                  module |-> [code |-> raw.codemodule, instance |-> raw.codeinstance,
                              title |-> raw.titlemodule],
                  isRegistered |-> isRegistered]
    IN Transformed(cleanActivityTitle(raw.acti_title), getRealTimeSlot(raw))

\* --------------------------------------------------- the raw records
\* is_rdv can be "1", "0", true, false, 1 or 0
IsRdvValues ==
    {StringValue("1"), StringValue("0"), BoolValue(TRUE), BoolValue(FALSE),
     NumberValue(1), NumberValue(0)}

IndividualSlot == "2024-03-01 10:20:00|2024-03-01 10:40:00"
GroupSlot == "2024-03-01 11:00:00|2024-03-01 11:45:00"
\* a slot the intranet gives with its end before its start
ReversedSlot == "2024-03-01 10:40:00|2024-03-01 10:20:00"

\* a reservation field: null, the empty string, a slot, a slot with one half
IndividualValues ==
    {NullValue, StringValue(""), StringValue(IndividualSlot), StringValue("2024-03-01 10:20:00"),
     StringValue(ReversedSlot)}
GroupValues == {NullValue, StringValue(""), StringValue(GroupSlot)}

ActivityTitles == {"Defense", "Follow-up [Obligatoire]  "}
Prefixes == {"", "EPITECH - "}
RoomValues == {NullValue, [type |-> "object", code |-> "FR/PAR/KB2-Pasteur/Bureau-APE"]}

RawEvent(isRdv, indiv, group, actiTitle, room) ==
    [codeacti |-> "acti-1", codeevent |-> "event-1", codemodule |-> "B-PRO-100",
     codeinstance |-> "PAR-1-1", scolaryear |-> "2023", titlemodule |-> "Project",
     acti_title |-> actiTitle,
     start |-> "2024-03-01 09:00:00", end |-> "2024-03-01 12:00:00",
     nb_hours |-> StringValue("03:00:00"),
     is_rdv |-> isRdv,
     rdv_indiv_registered |-> indiv,
     rdv_group_registered |-> group,
     event_registered |-> StringValue("registered"),
     registered |-> BoolValue(TRUE),
     room |-> room,
     instance_location |-> StringValue("FR/PAR")]

\* the nominal windows: the end after the start, and before it
Windows ==
    {[start |-> "2024-03-01 09:00:00", end |-> "2024-03-01 12:00:00"],
     [start |-> "2024-03-01 12:00:00", end |-> "2024-03-01 09:00:00"]}

RawEvents ==
    {[RawEvent(isRdv, indiv, group, actiTitle, room) EXCEPT !.start = w.start, !.end = w.end] :
        isRdv \in IsRdvValues, indiv \in IndividualValues, group \in GroupValues,
        actiTitle \in ActivityTitles, room \in RoomValues, w \in Windows}

NotCalled == [called |-> FALSE]

InitTransform ==
    /\ Quiet
    /\ \E raw \in RawEvents, prefix \in Prefixes :
          func = [fn |-> "transformEvent", raw |-> raw, prefix |-> prefix, out |-> NotCalled]

\* transformEvent(raw, prefix) is called
TransformEvent ==
    /\ func.fn = "transformEvent"
    /\ ~func.out.called
    /\ func' = [func EXCEPT !.out = [called |-> TRUE,
                                     event |-> transformEvent(func.raw, func.prefix)]]
    /\ UNCHANGED <<isSyncing, storage, remote, today, ctx, faults, lastPass, pages>>

NextTransform == TransformEvent
SpecTransform == InitTransform /\ [][NextTransform]_vars

\* the record is of the appointment type
IsAppointment(raw) ==
    \/ raw.is_rdv.type = "string" /\ raw.is_rdv.text = "1"
    \/ raw.is_rdv.type = "boolean" /\ raw.is_rdv.bool
    \/ raw.is_rdv.type = "number" /\ raw.is_rdv.num = 1

\* the field holds a reserved slot 'start|end' of two Epitech dates
IsSlot(value) ==
    /\ value.type = "string"
    /\ Len(value.text) = 39
    /\ Char(value.text, 20) = "|"
    /\ NewDate(SubSeq(value.text, 1, 19)).valid
    /\ NewDate(SubSeq(value.text, 21, 39)).valid

\* the window a slot denotes
SlotWindow(value) ==
    [start |-> NewDate(SubSeq(value.text, 1, 19)), end |-> NewDate(SubSeq(value.text, 21, 39))]

\* the nominal window of the record
NominalWindow(raw) == [start |-> NewDate(raw.start), end |-> NewDate(raw.end)]

HasMarker(event) == Contains(event.title, NotReservedMarker)

\* the window of the canonical event
WindowOf(event) == [start |-> event.startDate, end |-> event.endDate]

\* C20: transformEvent gives an appointment-type record the two halves of its
\* reserved slot as start and end, the individual reservation before the
\* group one, and no not-reserved marker in the title; an appointment-type
\* record without reservation gets its nominal window and the marker; any
\* other record gets its nominal window and no marker.
C20_PersonalSlotOverride ==
    (func.fn = "transformEvent" /\ func.out.called) =>
        LET raw == func.raw
            event == func.out.event
            indiv == raw.rdv_indiv_registered
            group == raw.rdv_group_registered
        IN /\ (IsAppointment(raw) /\ IsSlot(indiv)) =>
                 ~event.threw /\ WindowOf(event) = SlotWindow(indiv) /\ ~HasMarker(event)
           /\ (IsAppointment(raw) /\ ~Truthy(indiv) /\ IsSlot(group)) =>
                 ~event.threw /\ WindowOf(event) = SlotWindow(group) /\ ~HasMarker(event)
           /\ (IsAppointment(raw) /\ ~Truthy(indiv) /\ ~Truthy(group)) =>
                 ~event.threw /\ WindowOf(event) = NominalWindow(raw) /\ HasMarker(event)
           /\ ~IsAppointment(raw) =>
                 ~event.threw /\ WindowOf(event) = NominalWindow(raw) /\ ~HasMarker(event)

\* C20 witness: an appointment-type record with an individual and a group
\* reservation was transformed, and the event has the individual slot's window
C20_Witness ==
    /\ func.fn = "transformEvent"
    /\ func.out.called
    /\ IsAppointment(func.raw)
    /\ IsSlot(func.raw.rdv_indiv_registered)
    /\ IsSlot(func.raw.rdv_group_registered)
    /\ ~func.out.event.threw
    /\ func.out.event.startDate = DateOf(2024, 3, 1, 10, 20, 0)
    /\ func.out.event.endDate = DateOf(2024, 3, 1, 10, 40, 0)

\* a and b are instants and a is not after b (a comparison with an invalid
\* Date is false)
NotAfter(a, b) == a.valid /\ b.valid /\ GetTime(a) <= GetTime(b)

\* C21 as stated: every canonical event transformEvent produces has
\* startDate <= endDate, whatever the raw record, also when its reserved
\* slot or its nominal window has the end before the start.
C21_StartNotAfterEnd ==
    (func.fn = "transformEvent" /\ func.out.called /\ ~func.out.event.threw) =>
        NotAfter(func.out.event.startDate, func.out.event.endDate)

\* ===================================================================
\* getEventsForSync: the ownership filter and the transformation
\* ===================================================================
\* a field the record does not have
Undefined == [type |-> "undefined"]

\* isUserRegisteredToEvent: `!== null` is true of every value but null,
\* a field that is missing included
isUserRegisteredToEvent(event) ==
    \/ event.event_registered \in
          {StringValue("present"), StringValue("registered"), StringValue("absent")}
    \/ event.rdv_group_registered # NullValue
    \/ event.rdv_indiv_registered # NullValue

\* the outcome of getEventsForSync: the list, or an exception of transformEvent
EventsReturned(events) == [threw |-> FALSE, events |-> events]
EventsThrown == [threw |-> TRUE, events |-> <<>>]

\* getEventsForSync once fetchPlanningEvents resolved with rawEvents:
\* rawEvents.filter(isUserRegisteredToEvent).map(transformEvent)
getEventsForSync(rawEvents, eventPrefix) ==
    LET Outcome(events) ==
            IF \E k \in DOMAIN events : events[k].threw THEN EventsThrown
            ELSE EventsReturned(events)
        Mapped(registeredEvents) ==
            Outcome([k \in DOMAIN registeredEvents |->
                        transformEvent(registeredEvents[k], eventPrefix)])
    IN Mapped(SelectSeq(rawEvents, isUserRegisteredToEvent))

\* ------------------------------------------------ the planning feed
\* event_registered: 'registered', 'N/A' or false
RegisteredValues == {StringValue("registered"), StringValue("N/A"), BoolValue(FALSE)}

\* records of the feed: each form of registration, with each reservation
\* field null, missing, empty or holding a slot
FeedRecords ==
    {[RawEvent(isRdv, indiv, group, "Defense", NullValue) EXCEPT !.event_registered = reg] :
        isRdv \in {StringValue("1"), StringValue("0")},
        indiv \in {NullValue, Undefined, StringValue(""), StringValue(IndividualSlot)},
        group \in {NullValue, Undefined, StringValue(GroupSlot)},
        reg \in RegisteredValues}

\* a record of another event, which the user is registered to
OtherRecord ==
    [RawEvent(StringValue("0"), NullValue, NullValue, "Kick-off", NullValue)
        EXCEPT !.codeevent = "event-2"]

\* the feed holds a record alone, or before or after the other record
Feeds == UNION {{<<r>>, <<r, OtherRecord>>, <<OtherRecord, r>>} : r \in FeedRecords}

InitFeed ==
    /\ Quiet
    /\ \E rawEvents \in Feeds :
          func = [fn |-> "getEventsForSync", rawEvents |-> rawEvents, out |-> NotCalled]

\* getEventsForSync is called, with the default event prefix
GetEventsForSync ==
    /\ func.fn = "getEventsForSync"
    /\ ~func.out.called
    /\ func' = [func EXCEPT !.out = [called |-> TRUE,
                                     result |-> getEventsForSync(func.rawEvents, "EPITECH - ")]]
    /\ UNCHANGED <<isSyncing, storage, remote, today, ctx, faults, lastPass, pages>>

NextFeed == GetEventsForSync
SpecFeed == InitFeed /\ [][NextFeed]_vars

\* the user is registered to the record's event or holds a reservation
Owned(raw) ==
    \/ raw.event_registered \in
          {StringValue("present"), StringValue("registered"), StringValue("absent")}
    \/ Truthy(raw.rdv_indiv_registered)
    \/ Truthy(raw.rdv_group_registered)

\* the record the event was made from
MadeFrom(event, raw) == event.id = "epitech-" \o raw.codeacti \o "-" \o raw.codeevent

\* C22 as stated: every event getEventsForSync returns comes from a raw
\* record the user is registered to or holds an individual or group
\* reservation for; a record with neither, its reservation fields null or
\* missing, is not passed on.
C22_OnlyOwnedEvents ==
    (func.fn = "getEventsForSync" /\ func.out.called /\ ~func.out.result.threw) =>
        \A k \in DOMAIN func.out.result.events :
            \E n \in DOMAIN func.rawEvents :
                /\ MadeFrom(func.out.result.events[k], func.rawEvents[n])
                /\ Owned(func.rawEvents[n])

\* ===================================================================
\* The options page and the handlers that write the settings
\* ===================================================================
ServiceKey(svc) == IF svc = "google" THEN "googleCalendar" ELSE "outlookCalendar"

\* getSettings applied to the stored object: the defaults, overlaid with
\* the stored fields, each nested object overlaid field by field
getSettings(stored) ==
    [Merge(DEFAULT_SETTINGS, stored) EXCEPT
        !.autoSync = Merge(DEFAULT_SETTINGS.autoSync, stored.autoSync),
        !.googleCalendar = Merge(DEFAULT_SETTINGS.googleCalendar, stored.googleCalendar),
        !.outlookCalendar = Merge(DEFAULT_SETTINGS.outlookCalendar, stored.outlookCalendar)]

\* the Outlook settings after connectOutlookCalendar: the token is stored
ConnectedOutlook == [ConnectedService EXCEPT !.accessToken = "token"]

\* loadSettings of an options page: GET_SETTINGS is answered by
\* getSettings() and the reply becomes currentSettings
LoadSettings(g) ==
    /\ NoneSettled
    /\ pages[g] # Loaded(getSettings(storage.settings))
    /\ pages' = [pages EXCEPT ![g] = Loaded(getSettings(storage.settings))]
    /\ UNCHANGED <<isSyncing, storage, remote, today, ctx, faults, lastPass, func>>

\* collectSettings: the form's fields, and for each calendar the page's
\* snapshot with `enabled` taken from the form
collectSettings(currentSettings, form) ==
    [autoSync |-> form.autoSync,
     notificationsEnabled |-> form.notificationsEnabled,
     googleCalendar |-> Merge(currentSettings.googleCalendar,
                              [enabled |-> form.googleEnabled]),
     outlookCalendar |-> Merge(currentSettings.outlookCalendar,
                               [enabled |-> form.outlookEnabled])]

\* populateForm: the form shows the loaded settings; the user may then
\* change the notifications box
Forms(currentSettings) ==
    {[autoSync |-> currentSettings.autoSync,
      notificationsEnabled |-> n,
      googleEnabled |-> currentSettings.googleCalendar.enabled,
      outlookEnabled |-> currentSettings.outlookCalendar.enabled] : n \in BOOLEAN}

\* a handler that is not performSync settles
Handled(c) == [c EXCEPT !.pc = "done"]
Failed(c, msg) == [c EXCEPT !.pc = "done", !.thrown = msg]

\* saveSettings(patch) called, up to `await getSettings()`; the caller
\* continues at `after` once the write is done
EnterSave(c, patch, after) ==
    [c EXCEPT !.patch = patch, !.after = after, !.pc = "save_get"]

\* updateNestedSetting(key, value) called, up to its `await getSettings()`
EnterNested(c, svc, value, after) ==
    [c EXCEPT !.key = ServiceKey(svc), !.patch = value, !.after = after,
              !.pc = "nested_get"]

\* UPDATE_SETTINGS from page g: the Save button sends collectSettings()
UpdateSettings(p, g) ==
    /\ Arrives(p)
    /\ pages[g].loaded
    /\ \E form \in Forms(pages[g].currentSettings) :
          Ok(p, EnterSave([ctx[p] EXCEPT !.handler = "UPDATE_SETTINGS"],
                          collectSettings(pages[g].currentSettings, form), "done"),
             storage, remote)

\* saveSettings: `const current = await getSettings()`
SaveGet(p) ==
    /\ ctx[p].pc = "save_get"
    /\ \/ Ok(p, [ctx[p] EXCEPT !.current = getSettings(storage.settings), !.pc = "save_set"],
             storage, remote)
       \/ Fault(p, Failed(ctx[p], MsgStorage))

\* saveSettings: the write of { ...current, ...settings }
SaveSet(p) ==
    /\ ctx[p].pc = "save_set"
    /\ \/ Ok(p, [ctx[p] EXCEPT !.pc = ctx[p].after],
             [storage EXCEPT !.settings = Merge(ctx[p].current, ctx[p].patch)],
             remote)
       \/ Fault(p, Failed(ctx[p], MsgStorage))

\* updateNestedSetting: `const current = await getSettings()`, then
\* saveSettings({ [key]: { ...currentNested, ...value } })
NestedGet(p) ==
    LET c == ctx[p]
        nested == Merge(getSettings(storage.settings)[c.key], c.patch)
    IN
    /\ c.pc = "nested_get"
    /\ \/ Ok(p, EnterSave(c, IF c.key = "googleCalendar" THEN [googleCalendar |-> nested]
                              ELSE [outlookCalendar |-> nested],
                          c.after),
             storage, remote)
       \/ Fault(p, Failed(c, MsgStorage))

\* a disconnection that clears the calendar and the token only
DisconnectedFields_ConnectedKept == [calendarId |-> Null, accessToken |-> Null]

\* what disconnectGoogleCalendar / disconnectOutlookCalendar write
DisconnectedFields == [connected |-> FALSE, calendarId |-> Null, accessToken |-> Null]

\* the connect button of page g, which sends DISCONNECT_... when the page's
\* snapshot shows the service connected and CONNECT_... otherwise
ShowsConnected(g, svc) ==
    /\ pages[g].loaded
    /\ pages[g].currentSettings[ServiceKey(svc)].connected
ShowsDisconnected(g, svc) ==
    /\ pages[g].loaded
    /\ ~pages[g].currentSettings[ServiceKey(svc)].connected

\* DISCONNECT_GOOGLE / DISCONNECT_OUTLOOK from page g: Google first asks
\* chrome.identity for the cached token and removes it
Disconnect(p, g, svc) ==
    /\ Arrives(p)
    /\ ShowsConnected(g, svc)
    /\ LET c == [ctx[p] EXCEPT !.handler = "DISCONNECT", !.svc = svc]
       IN Ok(p, IF svc = "google" THEN [c EXCEPT !.pc = "dis_token"]
                ELSE EnterNested(c, svc, DisconnectedFields, "done"),
             storage, remote)

\* getAuthToken and removeCachedAuthToken settled; their errors are ignored
DisToken(p) ==
    /\ ctx[p].pc = "dis_token"
    /\ \/ Ok(p, EnterNested(ctx[p], "google", DisconnectedFields, "done"), storage, remote)
       \/ Fault(p, EnterNested(ctx[p], "google", DisconnectedFields, "done"))

\* CONNECT_GOOGLE / CONNECT_OUTLOOK from page g, up to the interactive
\* OAuth flow
Connect(p, g, svc) ==
    /\ Arrives(p)
    /\ ShowsDisconnected(g, svc)
    /\ Ok(p, [ctx[p] EXCEPT !.handler = "CONNECT", !.svc = svc, !.pc = "con_auth"],
          storage, remote)

\* the OAuth flow ended: Google goes on to findOrCreateEpitechCalendar,
\* Outlook first stores the token; a failed flow is reported to the page
ConAuth(p) ==
    /\ ctx[p].pc = "con_auth"
    /\ \/ Ok(p, IF ctx[p].svc = "google" THEN [ctx[p] EXCEPT !.pc = "con_calendar"]
                ELSE EnterNested(ctx[p], "outlook", [accessToken |-> "token"], "con_calendar"),
             storage, remote)
       \/ Fault(p, Failed(ctx[p], <<"Failed to authenticate">>))

\* findOrCreateEpitechCalendar resolved: the connection state is saved
ConCalendar(p) ==
    /\ ctx[p].pc = "con_calendar"
    /\ \/ Ok(p, EnterNested(ctx[p], ctx[p].svc,
                            [connected |-> TRUE, enabled |-> TRUE, calendarId |-> "cal"],
                            "done"),
             storage, remote)
       \/ Fault(p, Failed(ctx[p], ApiError(ctx[p].svc, "500")))

\* the hourly alarm 'syncCheck': `const settings = await getSettings()`
Alarm(p) ==
    /\ Arrives(p)
    /\ Ok(p, [ctx[p] EXCEPT !.handler = "alarm", !.pc = "alarm_settings"], storage, remote)

\* the settings arrived: with auto-sync enabled checkAuthentication is called
AlarmSettings(p) ==
    /\ ctx[p].pc = "alarm_settings"
    /\ \/ Ok(p, IF storage.settings.autoSync.enabled THEN [ctx[p] EXCEPT !.pc = "alarm_auth"]
                ELSE Handled(ctx[p]),
             storage, remote)
       \/ Fault(p, Failed(ctx[p], MsgStorage))

\* checkAuthentication resolved: updateSyncStatus({isConnected}) starts
AlarmAuth(p) ==
    /\ ctx[p].pc = "alarm_auth"
    /\ \E authenticated \in BOOLEAN :
          Ok(p, [ctx[p] EXCEPT !.patch = [isConnected |-> authenticated],
                               !.pc = "alarm_status_get"],
             storage, remote)

\* updateSyncStatus of the alarm: the read
AlarmStatusGet(p) ==
    /\ ctx[p].pc = "alarm_status_get"
    /\ \/ Ok(p, [ctx[p] EXCEPT !.current = storage.status, !.pc = "alarm_status_set"],
             storage, remote)
       \/ Fault(p, Failed(ctx[p], MsgStorage))

\* updateSyncStatus of the alarm: the write
AlarmStatusSet(p) ==
    /\ ctx[p].pc = "alarm_status_set"
    /\ \/ Ok(p, Handled(ctx[p]),
             [storage EXCEPT !.status = Merge(ctx[p].current, ctx[p].patch)], remote)
       \/ Fault(p, Failed(ctx[p], MsgStorage))

\* the user has Outlook connected and daily auto-sync on; no call is rejected
InitUi ==
    Start([DEFAULT_SETTINGS EXCEPT !.outlookCalendar = ConnectedOutlook,
                                   !.autoSync.enabled = TRUE],
          0, MaxDay)

\* sendResponse of a handler: the slot keeps which message it answered
\* and how
Respond(p) ==
    /\ ctx[p].pc = "done"
    /\ Commit(p, [ctx[p] EXCEPT !.pc = "closed"])
    /\ UNCHANGED <<storage, remote, faults>>

\* the steps of the handlers that write the settings
SettingsStep(p) ==
    \/ SaveGet(p)
    \/ SaveSet(p)
    \/ NestedGet(p)
    \/ DisToken(p)
    \/ ConAuth(p)
    \/ ConCalendar(p)

NextUi ==
    \/ \E g \in Pages : LoadSettings(g)
    \/ \E p \in Procs :
         \/ \E g \in Pages : UpdateSettings(p, g)
         \/ \E g \in Pages, svc \in Services : Disconnect(p, g, svc)
         \/ \E g \in Pages, svc \in Services : Connect(p, g, svc)
         \/ SettingsStep(p)
         \/ Respond(p)

SpecUi == InitUi /\ [][NextUi]_vars

\* -------------------------------------------------------------------
\* C23
\* -------------------------------------------------------------------
\* the persisted settings of svc hold no token and no connection
Off(settings, svc) ==
    /\ ~settings[ServiceKey(svc)].connected
    /\ settings[ServiceKey(svc)].accessToken = Null

\* DISCONNECT_... of svc was handled in slot p
Disconnected(p, svc) ==
    /\ ctx[p].handler = "DISCONNECT"
    /\ ctx[p].svc = svc
    /\ ctx[p].pc \in {"done", "closed"}
    /\ ctx[p].thrown = NullMsg

\* the user asked to connect svc again
ConnectsAgain(svc) ==
    \E q \in Procs : ctx[q].handler = "CONNECT" /\ ctx[q].svc = svc

\* C23: once DISCONNECT_GOOGLE / DISCONNECT_OUTLOOK has been handled, the
\* persisted settings of that service hold accessToken = null and
\* connected = false, whatever settings updates the pages send afterwards,
\* as long as the user has not connected again.
C23_DisconnectPersists ==
    \A p \in Procs, svc \in Services :
        (Disconnected(p, svc) /\ ~ConnectsAgain(svc)) => Off(storage.settings, svc)

\* ===================================================================
\* Automatic sync over the days
\* ===================================================================
\* the listener takes the next message in a slot whose reply was delivered
NextMessage(p) ==
    /\ ctx[p].pc = "closed"
    /\ ~ctx[p].tookGuard
    /\ Commit(p, IdleCtx)
    /\ UNCHANGED <<storage, remote, faults>>

\* the choices of the auto-sync box and list of the options page
AutoSyncChoices ==
    {[enabled |-> TRUE, frequency |-> "once_daily"],
     [enabled |-> FALSE, frequency |-> "once_daily"],
     [enabled |-> TRUE, frequency |-> "manual"]}

\* the background starts on the first day, nothing synchronised yet, no
\* calendar connected; no call is rejected
InitDaily ==
    \E choice \in AutoSyncChoices :
        Start([DEFAULT_SETTINGS EXCEPT !.autoSync = choice], 0, 1)

\* the steps of an automatic performSync invocation while no calendar is
\* connected: no service pass and no notification of a manual run
SyncStepUnconnected(p, feed) ==
    \/ SyncStatusGet(p)
    \/ SyncStatusSet(p)
    \/ SyncAuth(p)
    \/ ConnectedGet(p)
    \/ ConnectedSet(p)
    \/ FetchSettings(p)
    \/ Fetch(p, feed)
    \/ Cache(p)
    \/ Settings(p)
    \/ MarkSettingsGet(p)
    \/ MarkSettingsSet(p)
    \/ MarkStatusGet(p)
    \/ MarkStatusSet(p)
    \/ CatchStatusGet(p)
    \/ CatchStatusSet(p)
    \/ CatchSettings(p)
    \/ CatchNotify(p)
    \/ FinallyGet(p)
    \/ FinallySet(p)

NextDaily ==
    \/ \E g \in Pages : LoadSettings(g)
    \/ \E p \in Procs :
         \/ IntranetVisited(p)
         \/ IvAuth(p)
         \/ IvStatusGet(p)
         \/ IvStatusSet(p)
         \/ IvShouldAutoSync(p)
         \/ SyncStepUnconnected(p, {<<>>})
         \/ \E g \in Pages : UpdateSettings(p, g)
         \/ SaveGet(p)
         \/ SaveSet(p)
         \/ Respond(p)
         \/ NextMessage(p)

SpecDaily == InitDaily /\ [][NextDaily]_vars

\* -------------------------------------------------------------------
\* C24
\* -------------------------------------------------------------------
OnceDaily == [enabled |-> TRUE, frequency |-> "once_daily"]

\* the INTRANET_VISITED message of slot p starts a pass in this step
StartsPass(p) ==
    /\ ctx[p].pc = "iv_should"
    /\ ctx'[p].tookGuard

\* C24 (first half): with auto-sync enabled and frequency 'once_daily', an
\* INTRANET_VISITED message received after a pass was marked completed on
\* day D does not start another pass on day D.
C24_OncePerDay ==
    [][\A p \in Procs :
          (StartsPass(p) /\ storage.settings.autoSync = OnceDaily)
              => ctx'[p].now \notin ctx[p].seen]_vars

\* C24 (second half): with auto-sync disabled or frequency 'manual', no
\* INTRANET_VISITED message starts a pass.
C24_NeverWhenOff ==
    [][\A p \in Procs :
          StartsPass(p) => /\ storage.settings.autoSync.enabled
                           /\ storage.settings.autoSync.frequency # "manual"]_vars

\* ===================================================================
\* The writers of the persisted settings and status, interleaved
\* ===================================================================
\* daily auto-sync switched on, no calendar connected, first day; no call
\* is rejected
InitWriters == Start([DEFAULT_SETTINGS EXCEPT !.autoSync.enabled = TRUE], 0, 1)

\* the steps of the hourly alarm
AlarmStep(p) ==
    \/ AlarmSettings(p)
    \/ AlarmAuth(p)
    \/ AlarmStatusGet(p)
    \/ AlarmStatusSet(p)

\* two of: an automatic pass, UPDATE_SETTINGS from the options page, the
\* hourly alarm
NextWriters ==
    \/ \E g \in Pages : LoadSettings(g)
    \/ \E p \in Procs :
         \/ IntranetVisited(p)
         \/ IvAuth(p)
         \/ IvStatusGet(p)
         \/ IvStatusSet(p)
         \/ IvShouldAutoSync(p)
         \/ SyncStepUnconnected(p, {<<>>})
         \/ \E g \in Pages : UpdateSettings(p, g)
         \/ SaveGet(p)
         \/ SaveSet(p)
         \/ Alarm(p)
         \/ AlarmStep(p)
         \/ Respond(p)

SpecWriters == InitWriters /\ [][NextWriters]_vars

\* -------------------------------------------------------------------
\* C25
\* -------------------------------------------------------------------
\* every handler has settled and answered
AllAnswered == \A p \in Procs : ctx[p].pc \in {"idle", "closed"}

\* slot p held a pass whose markSyncCompleted returned
PassMarked(p) == ctx[p].pc = "closed" /\ ctx[p].markedOn # NullTime

\* slot p held the only UPDATE_SETTINGS, answered without an error
SettingsUpdated(p) ==
    /\ ctx[p].pc = "closed"
    /\ ctx[p].handler = "UPDATE_SETTINGS"
    /\ ctx[p].thrown = NullMsg
    /\ \A q \in Procs \ {p} : ctx[q].handler # "UPDATE_SETTINGS"

\* C25: once every handler has settled, the stored blobs reflect every
\* field written by each completed writer: after a pass the persisted
\* isSyncing is false, the date written by markSyncCompleted (or a later
\* one) is stored, and
\* the notifications choice of a user's UPDATE_SETTINGS is stored.
C25_NoLostUpdate ==
    AllAnswered =>
        \A p \in Procs :
            /\ ctx[p].tookGuard => ~storage.status.isSyncing
            /\ PassMarked(p) => storage.settings.lastSyncDate >= ctx[p].markedOn
            /\ SettingsUpdated(p) =>
                   storage.settings.notificationsEnabled = ctx[p].patch.notificationsEnabled

\* the three conjuncts of C25 taken one at a time
C25_FlagCleared ==
    AllAnswered => \A p \in Procs : ctx[p].tookGuard => ~storage.status.isSyncing
C25_DateKept ==
    AllAnswered => \A p \in Procs :
        PassMarked(p) => storage.settings.lastSyncDate >= ctx[p].markedOn
C25_ChoiceKept ==
    AllAnswered => \A p \in Procs :
        SettingsUpdated(p) =>
            storage.settings.notificationsEnabled = ctx[p].patch.notificationsEnabled

\* ===================================================================
\* Reconciliation passes cut short by the end of the process
\* ===================================================================
\* what is known of a service's last pass when the process ended during it
Interrupted == [events |-> <<>>, clean |-> FALSE, interrupted |-> TRUE]

\* the browser ends the background process while a pass is between two of
\* its requests: the frame is lost, the remote calendar stays as it is
Terminate(p) ==
    /\ ctx[p].handler = "syncToCalendar"
    /\ ctx[p].pc \in PassLabels
    /\ ctx' = [ctx EXCEPT ![p] = IdleCtx]
    /\ lastPass' = [lastPass EXCEPT ![ctx[p].svc] = Interrupted]
    /\ UNCHANGED <<isSyncing, storage, remote, today, faults, func, pages>>

NextHeal ==
    \/ SyncToCalendar("p1", FeedRich)
    \/ PassSettings("p1")
    \/ PassList("p1")
    \/ PassEvent("p1")
    \/ PassDelete("p1")
    \/ Return("p1")
    \/ Terminate("p1")

SpecHeal == InitRec /\ [][NextHeal]_vars

\* -------------------------------------------------------------------
\* C26
\* -------------------------------------------------------------------
\* the tagged events of the calendar of c's service correspond one to one
\* to the canonical list of c
OneToOne(c) ==
    /\ \A id \in EventIds(c.events) :
           Cardinality({e \in remote[c.svc] : e.tag = id}) = 1
    /\ \A e \in remote[c.svc] : e.tag \in EventIds(c.events)

\* C26: after a pass that was interrupted at an arbitrary point, the next
\* pass in which every call succeeds leaves the tagged remote events in
\* one-to-one correspondence with the canonical list of that pass.
C26_SelfHealing ==
    \A p \in Procs :
        (PassClean(ctx[p]) /\ ctx[p].prevPass = Interrupted) => OneToOne(ctx[p])

\* the same for the Outlook adapter alone
C26_SelfHealingOutlook ==
    \A p \in Procs :
        (PassClean(ctx[p]) /\ ctx[p].prevPass = Interrupted /\ ctx[p].svc = "outlook")
            => OneToOne(ctx[p])

C26_WitnessOutlook ==
    \E p \in Procs :
        /\ PassClean(ctx[p])
        /\ ctx[p].prevPass = Interrupted
        /\ ctx[p].svc = "outlook"
        /\ ctx[p].tagsBefore # EventIds(ctx[p].events)
        /\ ctx[p].tagsBefore # {}

\* ===================================================================
\* performSync when every awaited call settles
\* ===================================================================
\* what a pending handler of slot p does next once the call it awaits has
\* resolved or rejected
Progress(p) ==
    \/ IvAuth(p)
    \/ IvStatusGet(p)
    \/ IvStatusSet(p)
    \/ IvShouldAutoSync(p)
    \/ Reply(p)
    \/ SyncStep(p, FeedSmall)

\* how far each handler has come: its label, its loop counters and the
\* number of requests it has sent; every step of a handler changes it
position ==
    [p \in Procs |-> <<ctx[p].pc, ctx[p].i, ctx[p].j, ctx[p].pageToken, Len(ctx[p].calls)>>]

\* Spec with every awaited call settling: a handler that can continue
\* does
SpecLive == Init /\ [][Next]_vars /\ \A p \in Procs : WF_position(Progress(p))

\* -------------------------------------------------------------------
\* C27
\* -------------------------------------------------------------------
\* the invocation in c went through the guard and has not settled
Running(c) == c.tookGuard /\ c.outcome = "none"

\* the block of svc in performSync was not skipped: its pass threw before
\* the listing, or it requested the listing and, when every page arrived,
\* sent one create or update for each canonical event
Attempted(c, svc) ==
    \/ \E k \in DOMAIN c.result.errors : StartsWith(c.result.errors[k], ServiceFailed(svc))
    \/ /\ \E k \in DOMAIN c.calls : c.calls[k].svc = svc /\ c.calls[k].op = "list"
       /\ ListOk(c, svc) =>
            \A id \in EventIds(c.events) :
                Cardinality(CallsFor(c, svc, {"create", "update"}, id)) = 1

\* performSync of slot p goes from the service blocks on to markSyncCompleted
LeavesServices(p) ==
    /\ ctx[p].pc \in PassLabels \cup {"settings"}
    /\ ctx'[p].pc = "mark_settings_get"

ListCalls(c) == {k \in DOMAIN c.calls : c.calls[k].op = "list"}

\* the number of pages the service needs for n matching events
PagesFor(n) == IF n = 0 THEN 1 ELSE (n + PageSize - 1) \div PageSize

\* the pass of slot p receives the last page of its listing in this step
ListingEnds(p) ==
    /\ ctx[p].pc = "pass_list"
    /\ ctx'[p].pc # "pass_list"
    /\ ListOk(ctx'[p], ctx[p].svc)

GoogleOver(c) ==
    \/ \E k \in DOMAIN c.calls : c.calls[k].svc = "google" /\ c.calls[k].op = "list"
    \/ \E k \in DOMAIN c.result.errors : StartsWith(c.result.errors[k], ServiceFailed("google"))

\* the invocation of slot p receives the answer to a remote request in
\* this step
Answered(p) ==
    /\ Len(ctx'[p].calls) = Len(ctx[p].calls) + 1
    /\ ctx'[p].calls[Len(ctx'[p].calls)].svc \in Services

\* C29: within one performSync invocation the remote requests are answered
\* one at a time, each by the pass the invocation is in; no Google request
\* follows an Outlook request, and the Outlook pass sends its first
\* request only when the Google pass is over.
C29_PassesInSequence ==
    [][\A p \in Procs :
          LET c == ctx[p]
              call == ctx'[p].calls[Len(ctx'[p].calls)]
          IN /\ Len(ctx'[p].calls) <= Len(c.calls) + 1
             /\ Answered(p) =>
                  /\ SubSeq(ctx'[p].calls, 1, Len(c.calls)) = c.calls
                  /\ c.pc \in PassLabels
                  /\ c.svc = call.svc
                  /\ call.svc = "google" =>
                        \A k \in DOMAIN c.calls : c.calls[k].svc # "outlook"
                  /\ (call.svc = "outlook" /\ ServiceOn(c.settings, "google")) =>
                        GoogleOver(c)]_vars

\* an invocation sent a create, update or delete to Google and then to Outlook
C29_Witness ==
    \E p \in Procs :
        /\ ctx[p].tookGuard
        /\ \A svc \in Services :
               \E k \in DOMAIN ctx[p].calls :
                   ctx[p].calls[k].svc = svc /\ ctx[p].calls[k].op \in Mutations

\* -------------------------------------------------------------------
\* C30
\* -------------------------------------------------------------------
\* the last-sync fields of the persisted settings
LastSync(settings) == <<settings.lastSyncTimestamp, settings.lastSyncDate>>

\* C30: lastSyncTimestamp and lastSyncDate change only through a pass that
\* finishes successfully: the invocation whose step changes them has
\* collected no error, so that its result can have success = true.
C30_OnlyOnSuccess ==
    [][LastSync(storage'.settings) # LastSync(storage.settings) =>
          \E p \in Procs :
              /\ ctx[p].pc = "mark_settings_set"
              /\ ctx'[p].pc = "mark_status_get"
              /\ ctx[p].result.errors = <<>>]_vars

\* -------------------------------------------------------------------
\* C31
\* -------------------------------------------------------------------
\* performSync of slot p resolved with its result
ResultReturned(p) ==
    /\ ctx[p].invoked
    /\ ctx[p].pc = "done"
    /\ ctx[p].outcome = "returned"

\* C31: in every result returned by performSync, whether the guard turned
\* the call away, the try block ran through or the catch block ran,
\* success is true exactly when the errors list is empty.
C31_SuccessIffNoErrors ==
    \A p \in Procs :
        ResultReturned(p) => (ctx[p].result.success <=> ctx[p].result.errors = <<>>)

\* results of the three kinds: turned away by the guard, service errors
\* collected by the try block, and a clean run
C31_Witness ==
    \E p \in Procs :
        /\ ResultReturned(p)
        /\ ctx[p].tookGuard
        /\ ~ctx[p].result.success
        /\ \E k \in DOMAIN ctx[p].calls : ctx[p].calls[k].op = "list" /\ ~ctx[p].calls[k].ok

C31_WitnessGuard ==
    \E p \in Procs : ResultReturned(p) /\ ~ctx[p].tookGuard

C31_WitnessClean ==
    \E p \in Procs : ResultReturned(p) /\ ctx[p].tookGuard /\ ctx[p].result.success

\* -------------------------------------------------------------------
\* C32
\* -------------------------------------------------------------------
\* the entries of the pass's errors that start with the given words
ErrorsOf(c, words) ==
    {k \in DOMAIN c.details.errors : StartsWith(c.details.errors[k], words)}

\* the listed remote ids that are absent from the canonical list
StaleIds(c) ==
    {c.existingEvents[k].key : k \in DOMAIN c.existingEvents} \ EventIds(c.events)

\* a direct call of a pass returned and its listing had succeeded
PassListed(c) == PassDone(c) /\ c.outcome = "returned" /\ ListOk(c, c.svc)

\* C32: in a pass whose listing succeeded, created + updated + the number
\* of 'Event <id>' errors is the number of canonical events, deleted + the
\* number of 'Delete <id>' errors is the number of listed ids absent from
\* the canonical list, each canonical event has exactly one create or
\* update request and each stale id exactly one delete request, and every
\* delete comes after every create and update.
C32_CountsConserved ==
    \A p \in Procs :
        LET c == ctx[p] IN
        PassListed(c) =>
            /\ c.details.created + c.details.updated
                   + Cardinality(ErrorsOf(c, <<"Event ">>)) = Len(c.events)
            /\ c.details.deleted + Cardinality(ErrorsOf(c, <<"Delete ">>))
                   = Cardinality(StaleIds(c))
            /\ \A id \in EventIds(c.events) :
                   Cardinality(CallsFor(c, c.svc, {"create", "update"}, id)) = 1
            /\ \A id \in StaleIds(c) :
                   Cardinality(CallsFor(c, c.svc, {"delete"}, id)) = 1
            /\ \A id \in CalledIds(c) :
                   /\ Cardinality(CallsFor(c, c.svc, Mutations, id)) = 1
                   /\ id \in EventIds(c.events) \cup StaleIds(c)
            /\ \A j, k \in DOMAIN c.calls :
                   (c.calls[j].op = "delete" /\ c.calls[k].op \in {"create", "update"})
                       => k < j

\* a pass over listed events with a successful and a failed request in
\* its first loop and a failed delete
C32_Witness ==
    \E p \in Procs :
        LET c == ctx[p] IN
        /\ PassListed(c)
        /\ c.details.updated >= 1
        /\ ErrorsOf(c, <<"Event ">>) # {}
        /\ ErrorsOf(c, <<"Delete ">>) # {}

\* a pass that created an event and deleted a stale one
C32_WitnessDeleted ==
    \E p \in Procs :
        LET c == ctx[p] IN
        PassListed(c) /\ c.details.created >= 1 /\ c.details.deleted >= 1


\* ===================================================================
\* The background process ended during performSync
\* ===================================================================
\* handleGetStatus: Promise.all of getSyncStatus, getSettings and
\* checkAuthentication; isSyncing is taken from the stored status
handleGetStatus(status, settings, authenticated) ==
    [isConnected |-> authenticated, isSyncing |-> status.isSyncing,
     lastSync |-> settings.lastSyncTimestamp, lastError |-> status.lastError]

\* GET_STATUS from the popup
GetStatus(p) ==
    /\ Arrives(p)
    /\ \E authenticated \in BOOLEAN :
         Ok(p, [ctx[p] EXCEPT !.handler = "GET_STATUS", !.pc = "done",
                              !.result = handleGetStatus(storage.status, storage.settings,
                                                         authenticated)],
            storage, remote)

\* what is left of an invocation that was pending when the process ended
Ended(c) ==
    [IdleCtx EXCEPT !.pc = "closed", !.handler = c.handler, !.invoked = c.invoked,
                    !.tookGuard = c.tookGuard, !.outcome = "terminated"]

\* the browser ends the background process while performSync awaits and
\* starts it again for the next message: the pending invocations are gone,
\* the module is loaded anew with `let isSyncing = false`, the stored
\* status is what the last write left.  No listener registered at load
\* writes the status.
Shutdown ==
    /\ \E p \in Procs : Running(ctx[p])
    /\ NoneSettled
    /\ ctx' = [p \in Procs |-> IF ctx[p].pc \in {"idle", "closed"} THEN ctx[p]
                                ELSE Ended(ctx[p])]
    /\ isSyncing' = FALSE
    /\ UNCHANGED <<storage, remote, today, faults, lastPass, func, pages>>

\* auto-sync on every visit, no calendar connected, no call rejected
InitRestart ==
    Start([DEFAULT_SETTINGS EXCEPT !.autoSync = [enabled |-> TRUE, frequency |-> "every_visit"]],
          0, MaxDay)

NextRestart ==
    \/ Shutdown
    \/ \E p \in Procs :
         \/ IntranetVisited(p)
         \/ IvAuth(p)
         \/ IvStatusGet(p)
         \/ IvStatusSet(p)
         \/ IvShouldAutoSync(p)
         \/ SyncStepUnconnected(p, {<<>>})
         \/ GetStatus(p)
         \/ Respond(p)

SpecRestart == InitRestart /\ [][NextRestart]_vars

\* -------------------------------------------------------------------
\* C33
\* -------------------------------------------------------------------
\* C33: whenever no performSync invocation is in progress, the stored
\* isSyncing, which GET_STATUS reports, is false -- also after the process
\* ended during a pass and was started again.
C33_FlagOnlyWhileRunning ==
    (\A p \in Procs : ~Unresolved(ctx[p])) => ~storage.status.isSyncing

\* GET_STATUS answered isSyncing: true after a restart, no pass running
C33_StuckAfterRestart ==
    \E p, q \in Procs :
        /\ ctx[q].outcome = "terminated" /\ ctx[q].tookGuard
        /\ ctx[p].handler = "GET_STATUS" /\ ctx[p].pc = "done"
        /\ ctx[p].result.isSyncing
        /\ ~isSyncing
        /\ \A r \in Procs : ~Unresolved(ctx[r])


\* ===================================================================
\* The auto-sync switch of the popup
\* ===================================================================
\* the values of the frequency list of the options page
Frequencies == {"every_visit", "once_daily", "manual"}

\* handleAutoSyncToggle of the popup: UPDATE_SETTINGS with
\* {autoSync: {enabled: autoSyncToggle.checked}}
AutoSyncToggle(p) ==
    /\ Arrives(p)
    /\ \E checked \in BOOLEAN :
         Ok(p, EnterSave([ctx[p] EXCEPT !.handler = "UPDATE_SETTINGS"],
                         [autoSync |-> [enabled |-> checked]], "done"),
            storage, remote)

\* GET_SETTINGS: the reply is getSettings()
GetSettings(p) ==
    /\ Arrives(p)
    /\ Ok(p, [ctx[p] EXCEPT !.handler = "GET_SETTINGS", !.pc = "done",
                            !.settings = getSettings(storage.settings)],
          storage, remote)

\* the options page saved some choice of auto-sync before; nothing else
\* is connected and no call is rejected
InitToggle ==
    \E enabled \in BOOLEAN, frequency \in Frequencies :
        Start([DEFAULT_SETTINGS EXCEPT
                  !.autoSync = [enabled |-> enabled, frequency |-> frequency]],
              0, MaxDay)

NextToggle ==
    \E p \in Procs :
        \/ AutoSyncToggle(p)
        \/ GetSettings(p)
        \/ SaveGet(p)
        \/ SaveSet(p)
        \/ Respond(p)

SpecToggle == InitToggle /\ [][NextToggle]_vars

\* -------------------------------------------------------------------
\* C34
\* -------------------------------------------------------------------
\* the write of saveSettings by invocation p
Saves(p) == ctx[p].pc = "save_set" /\ ctx'[p].pc = ctx[p].after

\* C34: UPDATE_SETTINGS with only some fields of a nested object leaves the
\* object's other fields as they were: the write of the popup's
\* {autoSync: {enabled}} does not change the autoSync.frequency that
\* getSettings returns.
C34_FrequencyKept ==
    [][\A p \in Procs :
          (Saves(p) /\ DOMAIN ctx[p].patch = {"autoSync"}) =>
              getSettings(storage'.settings).autoSync.frequency
                  = getSettings(storage.settings).autoSync.frequency]_vars

\* the switch was the only message: the frequency chosen in the options
\* page was "every_visit", GET_SETTINGS now answers "once_daily"
C34_FrequencyReset ==
    /\ ctx["p1"].handler = "UPDATE_SETTINGS" /\ ctx["p1"].pc = "closed"
    /\ ctx["p1"].thrown = NullMsg
    /\ ctx["p1"].current.autoSync.frequency = "every_visit"
    /\ ctx["p2"].handler = "GET_SETTINGS" /\ ctx["p2"].pc = "done"
    /\ ctx["p2"].settings.autoSync.frequency = "once_daily"


\* ===================================================================
\* The ids of two records of one fetch
\* ===================================================================
ModuleCodes == {"B-PRO-100", "B-MAT-200"}
ActivityCodes == {"acti-1", "acti-2"}
EventCodes == {"event-1", "event-2", "event-3"}

\* a registered course record with the given codes
KeyedEvent(codemodule, codeacti, codeevent) ==
    [RawEvent(NullValue, NullValue, NullValue, "Defense", NullValue) EXCEPT
        !.codemodule = codemodule, !.codeacti = codeacti, !.codeevent = codeevent]

KeyedEvents ==
    {KeyedEvent(m, a, e) : m \in ModuleCodes, a \in ActivityCodes, e \in EventCodes}

\* the natural key of a record
NaturalKey(raw) == <<raw.codemodule, raw.codeacti, raw.codeevent>>

\* getEventsForSync is about to map two registered records of one fetch
InitKeys ==
    /\ Quiet
    /\ \E r1 \in KeyedEvents, r2 \in KeyedEvents :
          func = [fn |-> "map", raws |-> <<r1, r2>>, prefix |-> "", out |-> NotCalled]

\* registeredEvents.map((event) => transformEvent(event, settings.eventPrefix))
TransformEvents ==
    /\ func.fn = "map"
    /\ ~func.out.called
    /\ func' = [func EXCEPT !.out =
                   [called |-> TRUE,
                    events |-> [k \in DOMAIN func.raws |->
                                   transformEvent(func.raws[k], func.prefix)]]]
    /\ UNCHANGED <<isSyncing, storage, remote, today, ctx, faults, lastPass, pages>>

NextKeys == TransformEvents
SpecKeys == InitKeys /\ [][NextKeys]_vars

\* -------------------------------------------------------------------
\* C35
\* -------------------------------------------------------------------
\* C35: two raw records that differ in module code, activity code or event
\* code never receive the same id from transformEvent.
C35_IdInjective ==
    (func.fn = "map" /\ func.out.called) =>
        (NaturalKey(func.raws[1]) # NaturalKey(func.raws[2])
            => func.out.events[1].id # func.out.events[2].id)

\* two records of one fetch with the same activity and event codes in two
\* modules were given one id
C35_SameIdTwoModules ==
    /\ func.fn = "map" /\ func.out.called
    /\ func.raws[1].codemodule # func.raws[2].codemodule
    /\ func.raws[1].codeacti = func.raws[2].codeacti
    /\ func.raws[1].codeevent = func.raws[2].codeevent
    /\ func.out.events[1].id = func.out.events[2].id


\* ===================================================================
\* The times transmitted to the remote calendars
\* ===================================================================
\* the offset of Europe/Paris from UTC in hours at a time with the given
\* calendar fields: summer time in April to September, winter time in
\* November to February (the months of the change are left out)
ParisOffset(d) == IF d.month \in 4..9 THEN 2 ELSE 1

\* the calendar fields h hours after those of d (before, for h < 0)
ShiftHours(d, h) ==
    LET Shifted(hh) ==
            LET ymd == NormDay(d.year, d.month, d.day + (hh \div 24))
            IN DateOf(ymd[1], ymd[2], ymd[3], hh % 24, d.minutes, d.seconds)
    IN Shifted(d.hours + h)

\* the UTC calendar fields of the instant of a Date made in a browser
\* whose local zone is Europe/Paris
UtcFields(d) == ShiftHours(d, 0 - ParisOffset(d))

\* Date.prototype.toISOString: YYYY-MM-DDTHH:mm:ss.sssZ of the UTC fields
toISOString(d) ==
    LET Text(u) == NumStr(u.year) \o "-" \o pad(u.month) \o "-" \o pad(u.day) \o "T"
                   \o pad(u.hours) \o ":" \o pad(u.minutes) \o ":" \o pad(u.seconds)
                   \o ".000Z"
    IN Text(UtcFields(d))

\* String.prototype.replace(ch, by) for a one-character pattern: the first
\* occurrence only
ReplaceFirst(s, ch, by) ==
    IF \E i \in 1..Len(s) : Char(s, i) = ch
    THEN LET i == CHOOSE i \in 1..Len(s) :
                     Char(s, i) = ch /\ \A j \in 1..(i - 1) : Char(s, j) # ch
         IN SubSeq(s, 1, i - 1) \o by \o SubSeq(s, i + 1, Len(s))
    ELSE s

\* the start or end object of the request body: Google gets
\* toISOString(), Outlook toISOString().replace('Z', ''), both with
\* timeZone 'Europe/Paris'
Transmitted(time) ==
    [dateTime |-> IF time.utc THEN toISOString(time.dateTime)
                  ELSE ReplaceFirst(toISOString(time.dateTime), "Z", ""),
     timeZone |-> "Europe/Paris"]

\* the instant, by its UTC calendar fields, that a service takes a
\* transmitted {dateTime, timeZone} to mean: a dateTime ending in 'Z' is a
\* UTC time whatever the timeZone, a dateTime without offset is a wall-clock
\* time of the timeZone
Denoted(t) ==
    LET text == t.dateTime
        fields == DateOf(Number(SubSeq(text, 1, 4)), Number(SubSeq(text, 6, 7)),
                         Number(SubSeq(text, 9, 10)), Number(SubSeq(text, 12, 13)),
                         Number(SubSeq(text, 15, 16)), Number(SubSeq(text, 18, 19)))
    IN IF Char(text, Len(text)) = "Z" THEN fields
       ELSE ShiftHours(fields, 0 - ParisOffset(fields))

\* times of the planning in winter and in summer, at night and by day
PlanningTimes ==
    {"2024-" \o mo \o "-" \o d \o " " \o h \o ":30:00" :
        mo \in {"01", "07"}, d \in {"01", "15"}, h \in {"00", "01", "09", "23"}}

\* the canonical event of a record with the given start and end
TimedEvent(start, end) ==
    [id |-> "epitech-acti-1-event-1", title |-> "Defense", description |-> "",
     location |-> "", startDate |-> parseEpitechDate(start),
     endDate |-> parseEpitechDate(end)]

\* an adapter is about to build the request body of an event
InitTimes ==
    /\ Quiet
    /\ \E svc \in Services, start \in PlanningTimes, end \in PlanningTimes :
          func = [fn |-> "toRemoteEvent", svc |-> svc, event |-> TimedEvent(start, end),
                  out |-> NotCalled]

\* toGoogleEvent / toOutlookEvent called and the body serialised
ToRemoteEvent ==
    /\ func.fn = "toRemoteEvent"
    /\ ~func.out.called
    /\ func' = [func EXCEPT !.out =
                   [called |-> TRUE,
                    start |-> Transmitted(toRemoteEvent(func.svc, func.event).start),
                    end |-> Transmitted(toRemoteEvent(func.svc, func.event).end)]]
    /\ UNCHANGED <<isSyncing, storage, remote, today, ctx, faults, lastPass, pages>>

NextTimes == ToRemoteEvent
SpecTimes == InitTimes /\ [][NextTimes]_vars

\* -------------------------------------------------------------------
\* C36
\* -------------------------------------------------------------------
\* C36: for both adapters the transmitted start and end, read with the
\* transmitted timeZone, denote the instants of the canonical startDate and
\* endDate, in winter and in summer.
C36_SameInstants ==
    (func.fn = "toRemoteEvent" /\ func.out.called) =>
        /\ func.out.start.timeZone = "Europe/Paris"
        /\ func.out.end.timeZone = "Europe/Paris"
        /\ Denoted(func.out.start) = UtcFields(func.event.startDate)
        /\ Denoted(func.out.end) = UtcFields(func.event.endDate)

\* a summer event that starts at 09:30 in Paris, 07:30 UTC: Outlook was sent
\* 07:30 as a Paris time, which is 05:30 UTC, two hours early
C36_OutlookShifted ==
    /\ func.fn = "toRemoteEvent" /\ func.out.called
    /\ func.svc = "outlook"
    /\ func.event.startDate = DateOf(2024, 7, 15, 9, 30, 0)
    /\ func.out.start = [dateTime |-> "2024-07-15T07:30:00.000", timeZone |-> "Europe/Paris"]
    /\ Denoted(func.out.start) = DateOf(2024, 7, 15, 5, 30, 0)
    /\ UtcFields(func.event.startDate) = DateOf(2024, 7, 15, 7, 30, 0)

\* Google was sent the instants themselves, in winter across midnight and
\* in summer
C36_GoogleExact ==
    /\ func.fn = "toRemoteEvent" /\ func.out.called
    /\ func.svc = "google"
    /\ func.out.start.dateTime = "2023-12-31T23:30:00.000Z"
    /\ func.out.end.dateTime = "2024-07-15T07:30:00.000Z"
    /\ Denoted(func.out.start) = UtcFields(func.event.startDate)
    /\ Denoted(func.out.end) = UtcFields(func.event.endDate)


\* ===================================================================
\* Connecting and disconnecting while calls may be rejected
\* ===================================================================
\* what earlier operations can have left of a service: never connected,
\* connected, disconnected again (enabled stays as connect set it), and for
\* Outlook a connection that failed after its token was stored
ServiceStates(svc) ==
    IF svc = "google"
    THEN {DefaultService, ConnectedService, [DefaultService EXCEPT !.enabled = TRUE]}
    ELSE {DefaultService, ConnectedOutlook, [DefaultService EXCEPT !.enabled = TRUE],
          [DefaultService EXCEPT !.accessToken = "token"]}

\* the options page is opened on any of these; MaxFaults calls of the run
\* are rejected
InitConnect ==
    \E google \in ServiceStates("google"), outlook \in ServiceStates("outlook") :
        Start([DEFAULT_SETTINGS EXCEPT !.googleCalendar = google,
                                       !.outlookCalendar = outlook],
              MaxFaults, MaxDay)

SpecConnect == InitConnect /\ [][NextUi]_vars

\* -------------------------------------------------------------------
\* C37
\* -------------------------------------------------------------------
\* C37: in the persisted settings a service that is connected has a
\* calendar id, whatever connect, disconnect and settings-update operations
\* ran and however they interleaved, a connect that failed part-way
\* included.
C37_ConnectedHasCalendar ==
    \A svc \in Services :
        LET service == getSettings(storage.settings)[ServiceKey(svc)]
        IN service.connected => service.calendarId # Null

\* slot p handled the message `handler` about svc to its end
Completed(p, handler, svc) ==
    /\ ctx[p].handler = handler
    /\ ctx[p].svc = svc
    /\ ctx[p].pc \in {"done", "closed"}

\* Google was connected while Outlook was being disconnected or the page
\* saved its form, and both services are in the state the last write left
C37_Witness ==
    \E p, q \in Procs :
        /\ Completed(p, "CONNECT", "google") /\ ctx[p].thrown = NullMsg
        /\ \/ Completed(q, "DISCONNECT", "outlook")
           \/ ctx[q].handler = "UPDATE_SETTINGS" /\ ctx[q].pc \in {"done", "closed"}
        /\ storage.settings.googleCalendar.connected
        /\ storage.settings.googleCalendar.calendarId = "cal"

\* the connection of Outlook failed after its token was stored: the
\* service is left unconnected, without a calendar
C37_WitnessFailed ==
    \E p, q \in Procs :
        /\ Completed(q, "DISCONNECT", "outlook")
        /\ Completed(p, "CONNECT", "outlook") /\ ctx[p].thrown # NullMsg
        /\ storage.settings.outlookCalendar.accessToken = "token"
        /\ ~storage.settings.outlookCalendar.connected
        /\ storage.settings.outlookCalendar.calendarId = Null

=============================================================================
